---------------------------- MODULE Spec2Model ----------------------------
(***************************************************************************)
(* Model of the physics core of game-root: src/physics/engine/collision.py *)
(* (CollisionDetector, CollisionResolver, CollisionManager).               *)
(*                                                                         *)
(* Numbers.  Lengths and velocities are fixed-point integers in units of   *)
(* 1/100 (a radius of 1.0 is 100).  Arithmetic is exact real arithmetic:   *)
(* floating-point rounding is not modelled.  A unit vector v / |v| is kept *)
(* as the pair (num, den2) = (v, |v|^2), which needs no square root; where *)
(* the code needs |v| itself the inputs are drawn so that |v|^2 is a       *)
(* perfect square, and the variable "exact" records that no division or    *)
(* root ever left the integer grid.                                        *)
(***************************************************************************)
EXTENDS Integers, Sequences, FiniteSets, TLC

----------------------------------------------------------------------------
(* Bounds of the model *)

\* coordinates of the pure-function inputs range over 0..MaxCoord
MaxCoord == 2
\* sphere radii of the pure-function inputs range over 1..MaxRadius
MaxRadius == 2
\* box half extents of the pure-function inputs range over 1..MaxHalf
MaxHalf == 2
\* add_to_layer / remove_from_layer calls made before process_collisions
MaxLayerOps == 3
\* (layer, layer) permissions declared by a collision matrix
MaxPermissions == 1
\* ray_cast inputs: candidates lie at z in 0..MaxRayCoord, the objects list
\* holds up to MaxObjects of them, max_distance is 1 or MaxDistance
MaxRayCoord == 2
MaxObjects == 2
MaxDistance == 4
\* ray_cast against one box: box centres lie at SlabCell * c on the x and
\* y axes for c in -1..MaxSlabCell
MaxSlabCell == 2
\* resolve_sphere_collision inputs: velocity components are SpeedUnit * c
\* for c in -MaxSpeed..MaxSpeed
MaxSpeed == 1
\* integration steps of the caller's loop
MaxTicks == 4
\* calls made on a GravitySystem object
MaxGravityCalls == 4
\* add_to_layer and remove_from_layer calls made on a CollisionManager
MaxLayerCalls == 4
\* apply_movement_input ticks made with the input held
MaxSteerTicks == 9

----------------------------------------------------------------------------
(* Program constants, in the model's units *)

\* collision.py:34 and :73, "distance_squared > 0.0001": 0.0001 * 100^2
DistSqEps == 1
\* collision.py:304 and :347, "distance < 0.0001": distance^2 * 10^4 < 1
\* in units of 1/100, i.e. distance^2 * ResolveEpsInv < 1
ResolveEpsInv == 10000

----------------------------------------------------------------------------
(* Vectors: numpy arrays of three components *)

Axes == 1..3

Vec(x, y, z) == <<x, y, z>>

Zero3 == <<0, 0, 0>>

VAdd(a, b) == [k \in Axes |-> a[k] + b[k]]

VSub(a, b) == [k \in Axes |-> a[k] - b[k]]

VNeg(a) == [k \in Axes |-> 0 - a[k]]

VScale(a, s) == [k \in Axes |-> a[k] * s]

Dot(a, b) == a[1] * b[1] + a[2] * b[2] + a[3] * b[3]

Abs(x) == IF x < 0 THEN 0 - x ELSE x

Min2(a, b) == IF a <= b THEN a ELSE b

Max2(a, b) == IF a >= b THEN a ELSE b

Sign(x) == IF x > 0 THEN 1 ELSE IF x < 0 THEN -1 ELSE 0

\* an axis-aligned unit vector: sign on axis k, zero elsewhere
AxisVec(k, sign) == [a \in Axes |-> IF a = k THEN sign ELSE 0]

----------------------------------------------------------------------------
(* Contact normals.  Python's None is NoNormal; a normal num / sqrt(den2)  *)
(* is the record Normal(num, den2).                                        *)

NoNormal == [isNone |-> TRUE, num |-> Zero3, den2 |-> 0]

Normal(num, den2) == [isNone |-> FALSE, num |-> num, den2 |-> den2]

\* "-collision_normal"
NegNormal(n) == [n EXCEPT !.num = VNeg(n.num)]

\* the normal is a unit vector: |num|^2 = den2 > 0
IsUnit(n) == ~n.isNone /\ n.den2 > 0 /\ Dot(n.num, n.num) = n.den2

Detection(hit, normal) == [hit |-> hit, normal |-> normal]

----------------------------------------------------------------------------
(* CollisionDetector *)

\* check_sphere_sphere, mutated: touching spheres count as a hit
CheckSphereSphereTouching(pos1, radius1, pos2, radius2) ==
    LET direction == VSub(pos2, pos1)
        distance_squared == Dot(direction, direction)
        min_distance == radius1 + radius2
    IN  IF distance_squared <= min_distance * min_distance
        THEN IF distance_squared > DistSqEps
             THEN Detection(TRUE, Normal(direction, distance_squared))
             ELSE Detection(TRUE, Normal(Vec(0, 1, 0), 1))
        ELSE Detection(FALSE, NoNormal)

CheckSphereSphere(pos1, radius1, pos2, radius2) ==
    LET direction == VSub(pos2, pos1)
        distance_squared == Dot(direction, direction)
        min_distance == radius1 + radius2
    IN  IF distance_squared < min_distance * min_distance
        THEN IF distance_squared > DistSqEps
             THEN Detection(TRUE, Normal(direction, distance_squared))
             ELSE Detection(TRUE, Normal(Vec(0, 1, 0), 1))
        ELSE Detection(FALSE, NoNormal)

\* "distances.index(min(distances))": the first index holding the minimum
IndexOfMin(s) ==
    CHOOSE k \in 1..Len(s) :
        /\ \A m \in 1..Len(s) : s[k] <= s[m]
        /\ \A m \in 1..(k - 1) : s[m] > s[k]

\* the six face normals, in the order of the distances list
FaceNormals ==
    << Vec(-1, 0, 0), Vec(1, 0, 0), Vec(0, -1, 0),
       Vec(0, 1, 0), Vec(0, 0, -1), Vec(0, 0, 1) >>

CheckSphereBox(sphere_pos, sphere_radius, box_pos, box_half_size) ==
    LET closest_point ==
            [k \in Axes |->
                Max2(box_pos[k] - box_half_size[k],
                     Min2(sphere_pos[k], box_pos[k] + box_half_size[k]))]
        direction == VSub(sphere_pos, closest_point)
        distance_squared == Dot(direction, direction)
        distances ==
            << Abs(sphere_pos[1] - (box_pos[1] - box_half_size[1])),
               Abs(sphere_pos[1] - (box_pos[1] + box_half_size[1])),
               Abs(sphere_pos[2] - (box_pos[2] - box_half_size[2])),
               Abs(sphere_pos[2] - (box_pos[2] + box_half_size[2])),
               Abs(sphere_pos[3] - (box_pos[3] - box_half_size[3])),
               Abs(sphere_pos[3] - (box_pos[3] + box_half_size[3])) >>
    IN  IF distance_squared < sphere_radius * sphere_radius
        THEN IF distance_squared > DistSqEps
             THEN Detection(TRUE, Normal(direction, distance_squared))
             ELSE Detection(TRUE, Normal(FaceNormals[IndexOfMin(distances)], 1))
        ELSE Detection(FALSE, NoNormal)

\* the per-axis overlap test of check_box_box
AxisOverlap(pos1, half_size1, pos2, half_size2, k) ==
    /\ pos1[k] + half_size1[k] >= pos2[k] - half_size2[k]
    /\ pos2[k] + half_size2[k] >= pos1[k] - half_size1[k]

\* the per-axis penetration depth of check_box_box
AxisDepth(pos1, half_size1, pos2, half_size2, k) ==
    Min2(pos1[k] + half_size1[k] - (pos2[k] - half_size2[k]),
         pos2[k] + half_size2[k] - (pos1[k] - half_size1[k]))

\* check_box_box, mutated: the axis tests of the y and z depth are dropped,
\* so the x axis is taken whenever it is no deeper than y
CheckBoxBoxFirstAxis(pos1, half_size1, pos2, half_size2) ==
    LET x_depth == AxisDepth(pos1, half_size1, pos2, half_size2, 1)
        y_depth == AxisDepth(pos1, half_size1, pos2, half_size2, 2)
    IN  IF \A k \in Axes : AxisOverlap(pos1, half_size1, pos2, half_size2, k)
        THEN IF x_depth <= y_depth
             THEN Detection(TRUE,
                     Normal(IF pos1[1] < pos2[1] THEN Vec(1, 0, 0)
                                                 ELSE Vec(-1, 0, 0), 1))
             ELSE Detection(TRUE,
                     Normal(IF pos1[2] < pos2[2] THEN Vec(0, 1, 0)
                                                 ELSE Vec(0, -1, 0), 1))
        ELSE Detection(FALSE, NoNormal)

CheckBoxBox(pos1, half_size1, pos2, half_size2) ==
    LET x_overlap == AxisOverlap(pos1, half_size1, pos2, half_size2, 1)
        y_overlap == AxisOverlap(pos1, half_size1, pos2, half_size2, 2)
        z_overlap == AxisOverlap(pos1, half_size1, pos2, half_size2, 3)
        x_depth == AxisDepth(pos1, half_size1, pos2, half_size2, 1)
        y_depth == AxisDepth(pos1, half_size1, pos2, half_size2, 2)
        z_depth == AxisDepth(pos1, half_size1, pos2, half_size2, 3)
    IN  IF x_overlap /\ y_overlap /\ z_overlap
        THEN IF x_depth <= y_depth /\ x_depth <= z_depth
             THEN Detection(TRUE,
                     Normal(IF pos1[1] < pos2[1] THEN Vec(1, 0, 0)
                                                 ELSE Vec(-1, 0, 0), 1))
             ELSE IF y_depth <= x_depth /\ y_depth <= z_depth
             THEN Detection(TRUE,
                     Normal(IF pos1[2] < pos2[2] THEN Vec(0, 1, 0)
                                                 ELSE Vec(0, -1, 0), 1))
             ELSE Detection(TRUE,
                     Normal(IF pos1[3] < pos2[3] THEN Vec(0, 0, 1)
                                                 ELSE Vec(0, 0, -1), 1))
        ELSE Detection(FALSE, NoNormal)


----------------------------------------------------------------------------
(* CollisionDetector.ray_cast.  ray_direction is a unit vector with        *)
(* rational components, kept as the record Dir(num, den) for num / den     *)
(* with |num| = den: (0, 0, 1) is Dir(<<0, 0, 1>>, 1) and (0.6, 0.8, 0) is *)
(* Dir(<<3, 4, 0>>, 5).  The inputs are drawn so that every intersection   *)
(* distance is an integer (ExactChord, ExactSlabs).                        *)

\* collision.py:223, "abs(ray_direction[i]) < 1e-6": |d| * 10^6 < 1
ParallelEpsInv == 1000000

\* the largest r in lo..hi with r * r <= n, by bisection (mid >= 1, and
\* mid * mid <= n exactly when mid <= n \div mid)
RECURSIVE SqrtBetween(_, _, _)
SqrtBetween(n, lo, hi) ==
    IF lo >= hi THEN lo
    ELSE LET mid == (lo + hi + 1) \div 2
         IN  IF mid <= n \div mid
             THEN SqrtBetween(n, mid, hi)
             ELSE SqrtBetween(n, lo, mid - 1)

\* math.sqrt, rounded down; exact on perfect squares
ISqrt(n) == SqrtBetween(n, 0, n)

IsSquare(n) == n >= 0 /\ ISqrt(n) * ISqrt(n) = n

Dir(num, den) == [num |-> num, den |-> den]

\* a / b for integers a and b # 0, b of either sign
Quot(a, b) == IF b > 0 THEN a \div b ELSE (0 - a) \div (0 - b)

\* "np.dot(offset, ray_direction)"
DotDir(v, ray_direction) == Dot(v, ray_direction.num) \div ray_direction.den

\* "ray_origin + ray_direction * t"
Along(ray_origin, ray_direction, t) ==
    VAdd(ray_origin,
         [k \in Axes |-> (ray_direction.num[k] * t) \div ray_direction.den])

Sphere(position, radius) ==
    [type |-> "sphere", position |-> position, radius |-> radius,
     half_size |-> Zero3]

Box(position, half_size) ==
    [type |-> "box", position |-> position, radius |-> 0,
     half_size |-> half_size]

\* what one pass of the loop body finds for one candidate
Candidate(hit, distance, normal) ==
    [hit |-> hit, distance |-> distance, normal |-> normal]

NoCandidate == Candidate(FALSE, 0, NoNormal)

\* squared distance from the sphere centre to the ray (line 191)
ClosestPointDistSquared(ray_origin, ray_direction, obj) ==
    LET offset == VSub(obj.position, ray_origin)
        projected_distance == DotDir(offset, ray_direction)
        closest_point == Along(ray_origin, ray_direction, projected_distance)
        d == VSub(closest_point, obj.position)
    IN  Dot(d, d)

\* the sphere branch of the loop body (lines 174-204)
RaySphere(ray_origin, ray_direction, obj, closest_distance) ==
    LET sphere_pos == obj.position
        sphere_radius == obj.radius
        offset == VSub(sphere_pos, ray_origin)
        projected_distance == DotDir(offset, ray_direction)
        closest_point_dist_squared ==
            ClosestPointDistSquared(ray_origin, ray_direction, obj)
        half_chord ==
            ISqrt(sphere_radius * sphere_radius - closest_point_dist_squared)
        hit_distance == projected_distance - half_chord
        hit_point == Along(ray_origin, ray_direction, hit_distance)
    IN  IF projected_distance < 0
        THEN NoCandidate
        ELSE IF closest_point_dist_squared > sphere_radius * sphere_radius
        THEN NoCandidate
        ELSE IF hit_distance < closest_distance
        THEN Candidate(TRUE, hit_distance,
                       Normal(VSub(hit_point, sphere_pos),
                              sphere_radius * sphere_radius))
        ELSE NoCandidate

\* the state of the slab loop: t_min is -inf until minSet, t_max is +inf
\* until maxSet; broke records the "break" (the ray misses the box)
SlabInit ==
    [t_min |-> 0, minSet |-> FALSE, t_max |-> 0, maxSet |-> FALSE,
     hit_normal_axis |-> 1, hit_normal_sign |-> 1, broke |-> FALSE]

\* "(bound - ray_origin[i]) / ray_direction[i]" (lines 230-231)
SlabTime(bound, ray_origin, ray_direction, k) ==
    Quot((bound - ray_origin[k]) * ray_direction.den, ray_direction.num[k])

\* one pass of "for i in range(3)" (lines 222-250)
SlabStep(s, ray_origin, ray_direction, min_bounds, max_bounds, k) ==
    IF s.broke THEN s
    ELSE IF Abs(ray_direction.num[k]) * ParallelEpsInv < ray_direction.den
    THEN IF ray_origin[k] < min_bounds[k] \/ ray_origin[k] > max_bounds[k]
         THEN [s EXCEPT !.broke = TRUE]
         ELSE s
    ELSE LET ta == SlabTime(min_bounds[k], ray_origin, ray_direction, k)
             tb == SlabTime(max_bounds[k], ray_origin, ray_direction, k)
             t1 == IF ta > tb THEN tb ELSE ta
             t2 == IF ta > tb THEN ta ELSE tb
             sign == IF ta > tb THEN -1 ELSE 1
             raised == ~s.minSet \/ t1 > s.t_min
             t_min == IF raised THEN t1 ELSE s.t_min
             t_max == IF s.maxSet THEN Min2(s.t_max, t2) ELSE t2
         IN  [t_min |-> t_min, minSet |-> TRUE,
              t_max |-> t_max, maxSet |-> TRUE,
              hit_normal_axis |-> IF raised THEN k ELSE s.hit_normal_axis,
              hit_normal_sign |-> IF raised THEN 0 - sign ELSE s.hit_normal_sign,
              broke |-> t_min > t_max]

Slabs(ray_origin, ray_direction, obj) ==
    LET min_bounds == VSub(obj.position, obj.half_size)
        max_bounds == VAdd(obj.position, obj.half_size)
        s1 == SlabStep(SlabInit, ray_origin, ray_direction, min_bounds, max_bounds, 1)
        s2 == SlabStep(s1, ray_origin, ray_direction, min_bounds, max_bounds, 2)
    IN  SlabStep(s2, ray_origin, ray_direction, min_bounds, max_bounds, 3)

\* the box branch, mutated: the hit distance is always the exit time t_max
RayBoxExitTime(ray_origin, ray_direction, obj, closest_distance) ==
    LET s == Slabs(ray_origin, ray_direction, obj)
        hit_distance == s.t_max
    IN  IF s.broke \/ ~s.minSet
        THEN NoCandidate
        ELSE IF hit_distance > 0 /\ hit_distance < closest_distance
        THEN Candidate(TRUE, hit_distance,
                       Normal(AxisVec(s.hit_normal_axis, s.hit_normal_sign), 1))
        ELSE NoCandidate

\* the box branch of the loop body (lines 206-258); with no axis crossed
\* t_min is -inf and the distance +inf, which is below no closest_distance
RayBox(ray_origin, ray_direction, obj, closest_distance) ==
    LET s == Slabs(ray_origin, ray_direction, obj)
        hit_distance == IF s.t_min > 0 THEN s.t_min ELSE s.t_max
    IN  IF s.broke \/ ~s.minSet
        THEN NoCandidate
        ELSE IF hit_distance > 0 /\ hit_distance < closest_distance
        THEN Candidate(TRUE, hit_distance,
                       Normal(AxisVec(s.hit_normal_axis, s.hit_normal_sign), 1))
        ELSE NoCandidate

RayCandidate(ray_origin, ray_direction, obj, closest_distance) ==
    IF obj.type = "sphere"
    THEN RaySphere(ray_origin, ray_direction, obj, closest_distance)
    ELSE IF obj.type = "box"
    THEN RayBox(ray_origin, ray_direction, obj, closest_distance)
    ELSE NoCandidate

\* the hit information ray_cast returns; index is the place of 'object'
\* in the objects list, 0 for None
HitInfo(index, distance, point, normal) ==
    [hit |-> index # 0, index |-> index, distance |-> distance,
     point |-> point, normal |-> normal]

NoHit == HitInfo(0, 0, Zero3, NoNormal)

\* "for obj in objects", from the k-th object on, with the loop's
\* closest_hit and closest_distance
RECURSIVE RayLoop(_, _, _, _, _, _)
RayLoop(ray_origin, ray_direction, objects, k, closest_distance, closest_hit) ==
    IF k > Len(objects) THEN closest_hit
    ELSE LET c == RayCandidate(ray_origin, ray_direction, objects[k],
                               closest_distance)
         IN  IF c.hit /\ c.distance < closest_distance
             THEN RayLoop(ray_origin, ray_direction, objects, k + 1, c.distance,
                     HitInfo(k, c.distance,
                             Along(ray_origin, ray_direction, c.distance),
                             c.normal))
             ELSE RayLoop(ray_origin, ray_direction, objects, k + 1,
                          closest_distance, closest_hit)

\* ray_cast, mutated: the first candidate found is returned
RayCastFirstFound(ray_origin, ray_direction, max_distance, objects) ==
    LET found == {k \in 1..Len(objects) :
                    RayCandidate(ray_origin, ray_direction, objects[k],
                                 max_distance).hit}
    IN  IF found = {} THEN NoHit
        ELSE LET k == CHOOSE m \in found : \A n \in found : m <= n
                 c == RayCandidate(ray_origin, ray_direction, objects[k],
                                   max_distance)
             IN  HitInfo(k, c.distance,
                         Along(ray_origin, ray_direction, c.distance),
                         c.normal)

RayCast(ray_origin, ray_direction, max_distance, objects) ==
    RayLoop(ray_origin, ray_direction, objects, 1, max_distance, NoHit)


----------------------------------------------------------------------------
(* CollisionResolver.  restitution is the fraction num / den.  A result    *)
(* carries "exact": every division and root it took was exact; "raised":   *)
(* the code raised ZeroDivisionError (1 / mass with mass = 0).             *)

\* collision.py:350, "distance = 1.0", in units of 1/100
FallbackDistance == 100

Fraction(num, den) == [num |-> num, den |-> den]

\* v / s for a vector v and an integer s > 0
VQuot(v, s) == [k \in Axes |-> v[k] \div s]

VDivides(v, s) == \A k \in Axes : v[k] % s = 0

Velocities(v1, v2, exact, raised) ==
    [velocity1 |-> v1, velocity2 |-> v2, exact |-> exact, raised |-> raised]

\* resolve_sphere_collision, mutated: the impulse is applied to the first
\* sphere only
ResolveSphereCollisionFirstOnly(pos1, velocity1, mass1, radius1, pos2, velocity2, mass2, radius2, restitution) ==
    LET normal == VSub(pos1, pos2)
        distance_squared == Dot(normal, normal)
        rel_velocity == VSub(velocity1, velocity2)
        \* vel_along_normal times the distance: it has the same sign
        along == Dot(rel_velocity, normal)
        den == restitution.den * distance_squared * (mass1 + mass2)
        num1 == VScale(normal,
                    (restitution.den + restitution.num) * along * mass2)
        num2 == VScale(normal,
                    (restitution.den + restitution.num) * along * mass1)
    IN  IF distance_squared * ResolveEpsInv < 1
        THEN Velocities(velocity1, velocity2, TRUE, FALSE)
        ELSE IF along > 0
        THEN Velocities(velocity1, velocity2, TRUE, FALSE)
        ELSE IF mass1 = 0 \/ mass2 = 0
        THEN Velocities(velocity1, velocity2, TRUE, TRUE)
        ELSE IF den > 0
        THEN Velocities(VSub(velocity1, VQuot(num1, den)),
                        velocity2,
                        VDivides(num1, den) /\ VDivides(num2, den), FALSE)
        ELSE Velocities(VAdd(velocity1, VQuot(num1, 0 - den)),
                        velocity2,
                        VDivides(num1, 0 - den) /\ VDivides(num2, 0 - den),
                        FALSE)

\* resolve_sphere_collision, mutated: the test for spheres moving apart is
\* dropped
ResolveSphereCollisionNoApartTest(pos1, velocity1, mass1, radius1, pos2, velocity2, mass2, radius2, restitution) ==
    LET normal == VSub(pos1, pos2)
        distance_squared == Dot(normal, normal)
        rel_velocity == VSub(velocity1, velocity2)
        \* vel_along_normal times the distance: it has the same sign
        along == Dot(rel_velocity, normal)
        den == restitution.den * distance_squared * (mass1 + mass2)
        num1 == VScale(normal,
                    (restitution.den + restitution.num) * along * mass2)
        num2 == VScale(normal,
                    (restitution.den + restitution.num) * along * mass1)
    IN  IF distance_squared * ResolveEpsInv < 1
        THEN Velocities(velocity1, velocity2, TRUE, FALSE)
        ELSE IF mass1 = 0 \/ mass2 = 0
        THEN Velocities(velocity1, velocity2, TRUE, TRUE)
        ELSE IF den > 0
        THEN Velocities(VSub(velocity1, VQuot(num1, den)),
                        VAdd(velocity2, VQuot(num2, den)),
                        VDivides(num1, den) /\ VDivides(num2, den), FALSE)
        ELSE Velocities(VAdd(velocity1, VQuot(num1, 0 - den)),
                        VSub(velocity2, VQuot(num2, 0 - den)),
                        VDivides(num1, 0 - den) /\ VDivides(num2, 0 - den),
                        FALSE)

\* With d = pos1 - pos2, normal = d / |d| and
\* j = -(1 + e) * vel_along_normal / (1/m1 + 1/m2), the update
\* (j / m1) * normal is  -(1 + e) * (rel . d) * m2 * d / (|d|^2 * (m1 + m2)).
ResolveSphereCollision(pos1, velocity1, mass1, radius1, pos2, velocity2, mass2, radius2, restitution) ==
    LET normal == VSub(pos1, pos2)
        distance_squared == Dot(normal, normal)
        rel_velocity == VSub(velocity1, velocity2)
        \* vel_along_normal times the distance: it has the same sign
        along == Dot(rel_velocity, normal)
        den == restitution.den * distance_squared * (mass1 + mass2)
        num1 == VScale(normal,
                    (restitution.den + restitution.num) * along * mass2)
        num2 == VScale(normal,
                    (restitution.den + restitution.num) * along * mass1)
    IN  IF distance_squared * ResolveEpsInv < 1
        THEN Velocities(velocity1, velocity2, TRUE, FALSE)
        ELSE IF along > 0
        THEN Velocities(velocity1, velocity2, TRUE, FALSE)
        ELSE IF mass1 = 0 \/ mass2 = 0
        THEN Velocities(velocity1, velocity2, TRUE, TRUE)
        ELSE IF den > 0
        THEN Velocities(VSub(velocity1, VQuot(num1, den)),
                        VAdd(velocity2, VQuot(num2, den)),
                        VDivides(num1, den) /\ VDivides(num2, den), FALSE)
        ELSE Velocities(VAdd(velocity1, VQuot(num1, 0 - den)),
                        VSub(velocity2, VQuot(num2, 0 - den)),
                        VDivides(num1, 0 - den) /\ VDivides(num2, 0 - den),
                        FALSE)

Positions(p1, p2, exact) == [pos1 |-> p1, pos2 |-> p2, exact |-> exact]

\* displacement = direction * penetration / 2 with direction = d / |d|,
\* that is  d * (r1 + r2 - |d|) / (2 * |d|)
ResolvePenetration(pos1, radius1, pos2, radius2) ==
    LET d == VSub(pos1, pos2)
        distance_squared == Dot(d, d)
        coincident == distance_squared * ResolveEpsInv < 1
        direction == IF coincident THEN Vec(1, 0, 0) ELSE d
        distance == IF coincident THEN FallbackDistance
                    ELSE ISqrt(distance_squared)
        \* |direction| as the model holds it: 1 for the fallback axis
        length == IF coincident THEN 1 ELSE distance
        penetration == radius1 + radius2 - distance
        num == VScale(direction, penetration)
    IN  IF (~coincident /\ (radius1 + radius2 <= 0
                            \/ (radius1 + radius2) * (radius1 + radius2)
                                 <= distance_squared))
           \/ (coincident /\ penetration <= 0)
        THEN Positions(pos1, pos2, TRUE)
        ELSE Positions(VAdd(pos1, VQuot(num, 2 * length)),
                       VSub(pos2, VQuot(num, 2 * length)),
                       (coincident \/ IsSquare(distance_squared))
                         /\ VDivides(num, 2 * length))


----------------------------------------------------------------------------
(* CollisionManager.  A snapshot is a dict from object id to a body dict.  *)
(* Body dicts are objects on the heap: a snapshot maps each id to the      *)
(* address of its dict, so that two snapshots can share a body dict.       *)

\* collision.py:540-541, "penetration * 0.8" with penetration = 0.1, in
\* units of 1/100
PositionCorrection == 8

Body(shape, position, velocity, mass, radius, half_size) ==
    [shape |-> shape, position |-> position, velocity |-> velocity,
     mass |-> mass, radius |-> radius, half_size |-> half_size]

\* "game_objects.copy()": a new dict holding the same body dicts
DictCopy(d) == [id \in DOMAIN d |-> d[id]]

\* the layers an object id belongs to (lines 417-424)
LayersOf(layers, obj_id) == {name \in DOMAIN layers : obj_id \in layers[name]}

ShouldCheckCollision(layers, obj1_id, obj2_id, matrix) ==
    \E layer1 \in LayersOf(layers, obj1_id) :
        /\ layer1 \in DOMAIN matrix
        /\ \E layer2 \in LayersOf(layers, obj2_id) : layer2 \in matrix[layer1]

\* the detection step of one pair (lines 471-496): the normal the
\* detector returned (raw) and collision_normal as used afterwards
Dispatch(detected, raw, used) ==
    [detected |-> detected, raw |-> raw, used |-> used]

\* lines 475-496: obj['radius'] or obj['half_size'] is read from a body
\* dict that has no such key, which raises KeyError
MissingShapeParameter(obj1, obj2) ==
    IF obj1.shape = "sphere" /\ obj2.shape = "sphere"
    THEN "radius" \notin DOMAIN obj1 \/ "radius" \notin DOMAIN obj2
    ELSE IF obj1.shape = "box" /\ obj2.shape = "box"
    THEN "half_size" \notin DOMAIN obj1 \/ "half_size" \notin DOMAIN obj2
    ELSE IF obj1.shape = "sphere" /\ obj2.shape = "box"
    THEN "radius" \notin DOMAIN obj1 \/ "half_size" \notin DOMAIN obj2
    ELSE IF obj1.shape = "box" /\ obj2.shape = "sphere"
    THEN "radius" \notin DOMAIN obj2 \/ "half_size" \notin DOMAIN obj1
    ELSE FALSE

DetectPair(obj1, obj2) ==
    IF obj1.shape = "sphere" /\ obj2.shape = "sphere"
    THEN LET r == CheckSphereSphere(obj1.position, obj1.radius,
                                    obj2.position, obj2.radius)
         IN  Dispatch(r.hit, r.normal, r.normal)
    ELSE IF obj1.shape = "box" /\ obj2.shape = "box"
    THEN LET r == CheckBoxBox(obj1.position, obj1.half_size,
                              obj2.position, obj2.half_size)
         IN  Dispatch(r.hit, r.normal, r.normal)
    ELSE IF obj1.shape = "sphere" /\ obj2.shape = "box"
    THEN LET r == CheckSphereBox(obj1.position, obj1.radius,
                                 obj2.position, obj2.half_size)
         IN  Dispatch(r.hit, r.normal,
                      IF r.hit /\ ~r.normal.isNone
                      THEN NegNormal(r.normal) ELSE r.normal)
    ELSE IF obj1.shape = "box" /\ obj2.shape = "sphere"
    THEN LET r == CheckSphereBox(obj2.position, obj2.radius,
                                 obj1.position, obj1.half_size)
         IN  Dispatch(r.hit, r.normal, r.normal)
    ELSE Dispatch(FALSE, NoNormal, NoNormal)

\* what resolving one pair writes: written is FALSE when nothing is
\* assigned, and then the other fields repeat what was read
Resolution(written, v1, v2, p1, p2, exact, raised) ==
    [written |-> written, velocity1 |-> v1, velocity2 |-> v2,
     pos1 |-> p1, pos2 |-> p2, exact |-> exact, raised |-> raised]

Unresolved(obj1, obj2) ==
    Resolution(FALSE, obj1.velocity, obj2.velocity,
               obj1.position, obj2.position, TRUE, FALSE)

\* the sphere-sphere branch (lines 500-518)
ResolveSpheres(obj1, obj2, restitution) ==
    LET v == ResolveSphereCollision(
                 obj1.position, obj1.velocity, obj1.mass, obj1.radius,
                 obj2.position, obj2.velocity, obj2.mass, obj2.radius,
                 restitution)
        p == ResolvePenetration(obj1.position, obj1.radius,
                                obj2.position, obj2.radius)
    IN  IF v.raised
        THEN Resolution(FALSE, obj1.velocity, obj2.velocity,
                        obj1.position, obj2.position, TRUE, TRUE)
        ELSE Resolution(TRUE, v.velocity1, v.velocity2, p.pos1, p.pos2,
                        v.exact /\ p.exact, FALSE)

\* The simplified impulse of the other pairs (lines 520-544).  With the
\* normal n = num / sqrt(den2):
\*   impulse / m1    = -(1 + e) * (rel . num) * m2 * num / (den2 * (m1 + m2))
\*   correction / m1 = PositionCorrection * m2 * num / (sqrt(den2) * (m1 + m2))
ResolveSimplified(obj1, obj2, collision_normal, restitution) ==
    LET n == collision_normal.num
        rel_velocity == VSub(obj1.velocity, obj2.velocity)
        along == Dot(rel_velocity, n)
        \* m1 + m2 and its sign (a negative mass can make it negative); the
        \* quotients are taken with positive denominators
        sum == obj1.mass + obj2.mass
        sign == IF sum < 0 THEN 0 - 1 ELSE 1
        m == sum * sign
        vden == restitution.den * collision_normal.den2 * m
        vnum1 == VScale(n, (restitution.den + restitution.num) * along
                             * obj2.mass * sign)
        vnum2 == VScale(n, (restitution.den + restitution.num) * along
                             * obj1.mass * sign)
        length == ISqrt(collision_normal.den2)
        pden == length * m
        pnum1 == VScale(n, PositionCorrection * obj2.mass * sign)
        pnum2 == VScale(n, PositionCorrection * obj1.mass * sign)
    IN  IF along > 0
        THEN Unresolved(obj1, obj2)
        ELSE IF obj1.mass = 0 \/ obj2.mass = 0
        THEN Resolution(FALSE, obj1.velocity, obj2.velocity,
                        obj1.position, obj2.position, TRUE, TRUE)
        ELSE Resolution(TRUE,
                 VSub(obj1.velocity, VQuot(vnum1, vden)),
                 VAdd(obj2.velocity, VQuot(vnum2, vden)),
                 VAdd(obj1.position, VQuot(pnum1, pden)),
                 VSub(obj2.position, VQuot(pnum2, pden)),
                 /\ IsSquare(collision_normal.den2)
                 /\ VDivides(vnum1, vden) /\ VDivides(vnum2, vden)
                 /\ VDivides(pnum1, pden) /\ VDivides(pnum2, pden),
                 FALSE)

\* lines 498-544
ResolvePair(obj1, obj2, dispatch, restitution) ==
    IF dispatch.detected /\ ~dispatch.used.isNone
    THEN IF obj1.shape = "sphere" /\ obj2.shape = "sphere"
         THEN ResolveSpheres(obj1, obj2, restitution)
         ELSE ResolveSimplified(obj1, obj2, dispatch.used, restitution)
    ELSE Unresolved(obj1, obj2)


----------------------------------------------------------------------------
(* Motion (src/physics/engine/motion.py).  Lengths and velocities are in   *)
(* units of 1/100, delta_time and the coefficients are fractions num/den.  *)
(* A game object is a Python dict: a function from its keys to values, so  *)
(* that a key can be absent.  The inputs are drawn so that every quotient  *)
(* and root is exact (the Exact predicates of the specifications).         *)

\* motion.py:115, "speed > 0.001": in units of 1/100 the speed is above
\* 1/10, that is speed^2 * SpeedSqEpsInv > 1
SpeedSqEpsInv == 100

\* motion.py:156, "9.81 is gravity magnitude", in units of 1/100
GravityMagnitude == 981

\* "obj.get(key, default)"
Get(obj, key, default) == IF key \in DOMAIN obj THEN obj[key] ELSE default

\* the dict with obj[key] = value assigned
Put(obj, key, value) ==
    [k \in DOMAIN obj \cup {key} |-> IF k = key THEN value ELSE obj[k]]

\* v * num / den for den > 0
VFrac(v, num, den) == [k \in Axes |-> (v[k] * num) \div den]

FracExact(v, num, den) == \A k \in Axes : (v[k] * num) % den = 0

\* "speed > 0.001" and "new_speed < 0.001" for the speed of v
SpeedAbove(v) == Dot(v, v) * SpeedSqEpsInv > 1

SpeedBelow(v) == Dot(v, v) * SpeedSqEpsInv < 1

\* the fields of a Motion object (lines 13-15 give the defaults)
MotionParams(gravity, air_resistance, ground_friction) ==
    [gravity |-> gravity, air_resistance |-> air_resistance,
     ground_friction |-> ground_friction]

DefaultMotion ==
    MotionParams(Vec(0, 0 - GravityMagnitude, 0), Fraction(1, 100), Fraction(1, 10))

\* apply_force, mutated: the acceleration is not scaled by delta_time
ApplyForceWholeSecond(mass, current_velocity, force, delta_time) ==
    VAdd(current_velocity, VQuot(force, mass))

\* apply_force (lines 52-57): mass is a positive integer
ApplyForce(mass, current_velocity, force, delta_time) ==
    LET acceleration == VQuot(force, mass)
    IN  VAdd(current_velocity,
             VFrac(acceleration, delta_time.num, delta_time.den))

\* apply_impulse (lines 74-79)
ApplyImpulse(mass, current_velocity, impulse) ==
    VAdd(current_velocity, VQuot(impulse, mass))

\* apply_gravity, mutated: gravity is applied to a grounded body too
ApplyGravityAlways(motion, velocity, is_grounded, delta_time) ==
    VAdd(velocity, VFrac(motion.gravity, delta_time.num, delta_time.den))

\* apply_gravity (lines 94-98)
ApplyGravity(motion, velocity, is_grounded, delta_time) ==
    IF ~is_grounded
    THEN VAdd(velocity, VFrac(motion.gravity, delta_time.num, delta_time.den))
    ELSE velocity

\* apply_air_resistance (lines 113-129)
ApplyAirResistance(motion, velocity, delta_time) ==
    IF SpeedAbove(velocity)
    THEN LET new_velocity ==
                 VSub(velocity,
                      VFrac(velocity,
                            motion.air_resistance.num * delta_time.num,
                            motion.air_resistance.den * delta_time.den))
         IN  IF SpeedBelow(new_velocity) \/ Dot(new_velocity, velocity) < 0
             THEN Zero3
             ELSE new_velocity
    ELSE Zero3

\* apply_ground_friction (lines 144-171): with speed = |horizontal_velocity|
\* the deceleration * delta_time is
\*   horizontal_velocity * ground_friction * 9.81 * delta_time / speed
ApplyGroundFriction(motion, velocity, is_grounded, delta_time) ==
    IF ~is_grounded THEN velocity
    ELSE LET horizontal_velocity == Vec(velocity[1], 0, velocity[3])
             speed == ISqrt(Dot(horizontal_velocity, horizontal_velocity))
             moved ==
                 VSub(horizontal_velocity,
                      VFrac(horizontal_velocity,
                            motion.ground_friction.num * GravityMagnitude
                              * delta_time.num,
                            motion.ground_friction.den * delta_time.den * speed))
             new_horizontal ==
                 IF SpeedBelow(moved) \/ Dot(moved, horizontal_velocity) < 0
                 THEN Zero3 ELSE moved
         IN  IF SpeedAbove(horizontal_velocity)
             THEN Vec(new_horizontal[1], velocity[2], new_horizontal[3])
             ELSE Vec(0, velocity[2], 0)

\* update_position (line 187)
UpdatePosition(position, velocity, delta_time) ==
    VAdd(position, VFrac(velocity, delta_time.num, delta_time.den))

\* process_object_motion, mutated: the position is moved by the velocity
\* the body came with
ProcessObjectMotionOldVelocity(motion, obj, delta_time) ==
    LET grounded == Get(obj, "is_grounded", FALSE)
        v1 == ApplyGravity(motion, obj.velocity, grounded, delta_time)
        v2 == ApplyAirResistance(motion, v1, delta_time)
        v3 == ApplyGroundFriction(motion, v2, grounded, delta_time)
    IN  Put(Put(obj, "velocity", v3), "position",
            UpdatePosition(obj.position, obj.velocity, delta_time))

\* process_object_motion (lines 201-230)
ProcessObjectMotion(motion, obj, delta_time) ==
    LET grounded == Get(obj, "is_grounded", FALSE)
        v1 == ApplyGravity(motion, obj.velocity, grounded, delta_time)
        v2 == ApplyAirResistance(motion, v1, delta_time)
        v3 == ApplyGroundFriction(motion, v2, grounded, delta_time)
    IN  Put(Put(obj, "velocity", v3), "position",
            UpdatePosition(obj.position, v3, delta_time))

\* every quotient and root process_object_motion takes is exact
MotionExact(motion, obj, delta_time) ==
    LET grounded == Get(obj, "is_grounded", FALSE)
        v1 == ApplyGravity(motion, obj.velocity, grounded, delta_time)
        v2 == ApplyAirResistance(motion, v1, delta_time)
        h == Vec(v2[1], 0, v2[3])
        v3 == ApplyGroundFriction(motion, v2, grounded, delta_time)
    IN  /\ ~grounded => FracExact(motion.gravity, delta_time.num, delta_time.den)
        /\ SpeedAbove(v1) =>
              FracExact(v1, motion.air_resistance.num * delta_time.num,
                        motion.air_resistance.den * delta_time.den)
        /\ (grounded /\ SpeedAbove(h)) =>
              /\ IsSquare(Dot(h, h))
              /\ FracExact(h, motion.ground_friction.num * GravityMagnitude
                                * delta_time.num,
                           motion.ground_friction.den * delta_time.den
                                * ISqrt(Dot(h, h)))
        /\ FracExact(v3, delta_time.num, delta_time.den)


\* np.cross
Cross(a, b) ==
    Vec(a[2] * b[3] - a[3] * b[2], a[3] * b[1] - a[1] * b[3],
        a[1] * b[2] - a[2] * b[1])

\* the movement parameters of an OmniMovement object (lines 249-256 give
\* the defaults); speeds and accelerations in units of 1/100
DefaultOmni ==
    [max_speed |-> 500, acceleration |-> 2000, deceleration |-> 2500,
     air_control |-> Fraction(3, 10),
     strafe_speed_multiplier |-> Fraction(8, 10),
     backward_speed_multiplier |-> Fraction(7, 10),
     sprint_multiplier |-> Fraction(3, 2),
     crouch_multiplier |-> Fraction(1, 2)]

\* lines 342-343: the right vector of forward_vec (integer coordinates),
\* as a rational vector; a zero cross product divided by 0.001 is zero
RightVec(forward_vec) ==
    LET c == Cross(Vec(0, 1, 0), forward_vec)
    IN  IF c = Zero3 THEN Dir(Zero3, 1) ELSE Dir(c, ISqrt(Dot(c, c)))

\* calculate_move_direction (lines 306-317); input_direction[2] and
\* input_direction[0] of the code are components 3 and 1 here, and
\* "magnitude > 0.001" is |num| / den > 1/1000
CalculateMoveDirection(forward_vec, right_vec, input_direction) ==
    LET num == VAdd(VScale(forward_vec, input_direction[3] * right_vec.den),
                    VScale(right_vec.num, input_direction[1]))
    IN  IF Dot(num, num) * 1000000 > right_vec.den * right_vec.den
        THEN Dir(num, ISqrt(Dot(num, num)))
        ELSE Dir(num, right_vec.den)

\* lines 350-366: direction_multiplier, with forward_alignment =
\* Dot(move_direction.num, forward_vec) / move_direction.den
DirectionMultiplier(omni, move_direction, forward_vec, is_sprinting, is_crouching) ==
    LET alignment == Dot(move_direction.num, forward_vec)
        base == IF alignment * 10 < 0 - 3 * move_direction.den
                THEN omni.backward_speed_multiplier
                ELSE IF Abs(alignment) * 10 < 7 * move_direction.den
                     THEN omni.strafe_speed_multiplier
                     ELSE Fraction(1, 1)
        modifier == IF is_sprinting THEN omni.sprint_multiplier
                    ELSE IF is_crouching THEN omni.crouch_multiplier
                         ELSE Fraction(1, 1)
    IN  Fraction(base.num * modifier.num, base.den * modifier.den)

\* lines 346-405, the branch with input: the new velocity, and whether
\* every quotient and root taken was exact
AccelerateVelocity(omni, obj, input_direction, delta_time, is_sprinting, is_crouching) ==
    LET forward_vec == Get(obj, "forward_vector", Vec(0, 0, 1))
        right_vec == RightVec(forward_vec)
        move_direction ==
            CalculateMoveDirection(forward_vec, right_vec, input_direction)
        multiplier == DirectionMultiplier(omni, move_direction, forward_vec,
                                          is_sprinting, is_crouching)
        desired_velocity ==
            VFrac(move_direction.num, omni.max_speed * multiplier.num,
                  move_direction.den * multiplier.den)
        acceleration_modifier ==
            IF ~Get(obj, "is_grounded", TRUE) THEN omni.air_control
            ELSE Fraction(1, 1)
        current_velocity_horizontal == Vec(obj.velocity[1], 0, obj.velocity[3])
        desired_velocity_horizontal ==
            Vec(desired_velocity[1], 0, desired_velocity[3])
        difference ==
            VSub(desired_velocity_horizontal, current_velocity_horizontal)
        acceleration_vector ==
            VFrac(difference, delta_time.den, delta_time.num)
        limit == Fraction(omni.acceleration * acceleration_modifier.num,
                          acceleration_modifier.den)
        squared == Dot(acceleration_vector, acceleration_vector)
        limited == squared * limit.den * limit.den > limit.num * limit.num
        accel_magnitude == ISqrt(squared)
        acceleration ==
            IF limited
            THEN VFrac(acceleration_vector, limit.num,
                       limit.den * accel_magnitude)
            ELSE acceleration_vector
        mass == Get(obj, "mass", 1)
        new_velocity ==
            ApplyForce(mass, obj.velocity, VScale(acceleration, mass),
                       delta_time)
    IN  [velocity |-> Vec(new_velocity[1], obj.velocity[2], new_velocity[3]),
         current_max_speed |->
            Fraction(omni.max_speed * multiplier.num, multiplier.den),
         desired_velocity |-> desired_velocity,
         exact |->
            /\ IsSquare(Dot(right_vec.num, right_vec.num))
            /\ IsSquare(Dot(move_direction.num, move_direction.num))
            /\ FracExact(move_direction.num, omni.max_speed * multiplier.num,
                         move_direction.den * multiplier.den)
            /\ FracExact(difference, delta_time.den, delta_time.num)
            /\ limited =>
                  /\ IsSquare(squared)
                  /\ FracExact(acceleration_vector, limit.num,
                               limit.den * accel_magnitude)
            /\ FracExact(acceleration, delta_time.num, delta_time.den)]

\* lines 406-434, the branch without input: the new velocity, and whether
\* every quotient and root taken was exact
DecelerateVelocity(omni, obj, delta_time) ==
    LET current_velocity_horizontal == Vec(obj.velocity[1], 0, obj.velocity[3])
        speed == ISqrt(Dot(current_velocity_horizontal,
                           current_velocity_horizontal))
        deceleration ==
            IF ~Get(obj, "is_grounded", TRUE)
            THEN Fraction(omni.deceleration * omni.air_control.num,
                          omni.air_control.den)
            ELSE Fraction(omni.deceleration, 1)
        mass == Get(obj, "mass", 1)
        force == VFrac(VNeg(current_velocity_horizontal),
                       deceleration.num * mass, deceleration.den * speed)
        new_velocity == ApplyForce(mass, obj.velocity, force, delta_time)
    IN  IF SpeedAbove(current_velocity_horizontal)
        THEN [velocity |->
                 Vec(new_velocity[1], obj.velocity[2], new_velocity[3]),
              exact |->
                 /\ IsSquare(Dot(current_velocity_horizontal,
                                 current_velocity_horizontal))
                 /\ FracExact(VNeg(current_velocity_horizontal),
                              deceleration.num * mass,
                              deceleration.den * speed)
                 /\ FracExact(VQuot(force, mass), delta_time.num,
                              delta_time.den)]
        ELSE [velocity |-> obj.velocity, exact |-> TRUE]

\* lines 346 and 406: "np.linalg.norm(input_direction) > 0.001" for an
\* input_direction with integer coordinates
HasInput(input_direction) == Dot(input_direction, input_direction) * 1000000 > 1

\* the velocity apply_movement_input computes, mutated: the input moves
\* nothing
MovementVelocityCoasting(omni, obj, input_direction, delta_time, is_sprinting, is_crouching) ==
    [AccelerateVelocity(omni, obj, input_direction, delta_time,
                        is_sprinting, is_crouching)
        EXCEPT !.velocity = obj.velocity]

\* the velocity apply_movement_input computes, and its exactness
MovementVelocity(omni, obj, input_direction, delta_time, is_sprinting, is_crouching) ==
    IF HasInput(input_direction)
    THEN AccelerateVelocity(omni, obj, input_direction, delta_time,
                            is_sprinting, is_crouching)
    ELSE DecelerateVelocity(omni, obj, delta_time)

\* apply_movement_input (lines 336-436)
ApplyMovementInput(omni, obj, input_direction, delta_time, is_sprinting, is_crouching) ==
    Put(obj, "velocity",
        MovementVelocity(omni, obj, input_direction, delta_time,
                         is_sprinting, is_crouching).velocity)

\* process_jump, mutated: the body stays grounded
ProcessJumpStillGrounded(obj, jump_force) ==
    IF Get(obj, "is_grounded", FALSE)
    THEN Put(obj, "velocity",
             ApplyImpulse(Get(obj, "mass", 1), obj.velocity,
                          Vec(0, jump_force, 0)))
    ELSE obj

\* process_jump (lines 450-467)
ProcessJump(obj, jump_force) ==
    IF Get(obj, "is_grounded", FALSE)
    THEN Put(Put(obj, "velocity",
                 ApplyImpulse(Get(obj, "mass", 1), obj.velocity,
                              Vec(0, jump_force, 0))),
             "is_grounded", FALSE)
    ELSE obj

\* the body of the loop of MotionPhysicsSystem.update (lines 529-550)
UpdateObject(motion, omni, obj, delta_time) ==
    IF ~Get(obj, "has_physics", TRUE) THEN obj
    ELSE LET updated_obj == ProcessObjectMotion(motion, obj, delta_time)
         IN  IF Get(obj, "has_controller", FALSE)
                  /\ "input_direction" \in DOMAIN obj
             THEN ApplyMovementInput(omni, updated_obj, obj.input_direction,
                                     delta_time,
                                     Get(obj, "is_sprinting", FALSE),
                                     Get(obj, "is_crouching", FALSE))
             ELSE updated_obj

\* MotionPhysicsSystem.update (lines 526-552): objects is a function from
\* object ids to body dicts
Update(motion, omni, objects, delta_time) ==
    [obj_id \in DOMAIN objects |->
        UpdateObject(motion, omni, objects[obj_id], delta_time)]

\* every quotient and root update takes for obj is exact
UpdateExact(motion, omni, obj, delta_time) ==
    Get(obj, "has_physics", TRUE) =>
        /\ MotionExact(motion, obj, delta_time)
        /\ (Get(obj, "has_controller", FALSE)
               /\ "input_direction" \in DOMAIN obj) =>
              MovementVelocity(omni,
                               ProcessObjectMotion(motion, obj, delta_time),
                               obj.input_direction, delta_time,
                               Get(obj, "is_sprinting", FALSE),
                               Get(obj, "is_crouching", FALSE)).exact


----------------------------------------------------------------------------
(* State *)

VARIABLES
    collision_layers,   \* CollisionManager.collision_layers: name -> set of ids
    heap,               \* address -> body dict
    game_objects,       \* the caller's snapshot: id -> address
    updated_objects,    \* process_collisions' local dict: id -> address
    collision_matrix,   \* argument of the running process_collisions call
    restitution,        \* argument of the running process_collisions call
    pc,                 \* "idle", "pairs", "returned" or "raised"
    i, j,               \* the loop indices of process_collisions (from 1)
    input0,             \* history: id -> the body as it was when the call began
    lastPair,           \* history: what the last pass of the pair loop did
    exact,              \* history: the arithmetic so far was exact
    layerOps,           \* number of layer calls made so far
    call,               \* arguments of a function call, or the scenario
                        \* (specifications other than Spec)
    ret,                \* its result
    tick,               \* number of integration steps the caller has made
    gravity_system      \* the GravitySystem object (specification SpecGravitySystem)

managerVars ==
    << collision_layers, heap, game_objects, updated_objects, collision_matrix,
       restitution, pc, i, j, input0, lastPair, exact, layerOps, tick,
       gravity_system >>

vars ==
    << collision_layers, heap, game_objects, updated_objects, collision_matrix,
       restitution, pc, i, j, input0, lastPair, exact, layerOps, call, ret,
       tick, gravity_system >>

----------------------------------------------------------------------------
(* The snapshots the model draws.  Bodies lie on the x axis, on a grid     *)
(* fine enough that three halvings in a row stay on the integers.          *)

Grid == 2 * 2 * 2

Ids == {1, 2, 3}

\* "list(game_objects.keys())": the ids in insertion order; a snapshot
\* of n bodies has the ids 1..n
object_ids == [k \in DOMAIN game_objects |-> k]

LayerNames == {"player", "enemy"}

Shapes == {"sphere", "box"}

SphereRadius == 8 * Grid

BoxHalfSize == Vec(3 * Grid, 3 * Grid, 3 * Grid)

\* x coordinates of the three bodies: all overlapping; two coincident and
\* one far away
XChoices == { <<0, 5 * Grid, 10 * Grid>>, <<0, 0, 25 * Grid>> }

VStep == Grid * Grid * Grid

\* x velocities of the three bodies: every pair approaching; only the
\* outer pairs; only the pair (1, 2) separating; every pair separating
VxChoices ==
    { <<VStep, 0, 0 - VStep>>, <<VStep, VStep, 0 - VStep>>,
      <<0 - VStep, VStep, 0>>, <<0 - VStep, 0, VStep>> }

\* masses of the three bodies: the pairs (1, 2) and (2, 3) are unequal,
\* the pair (1, 3) is equal
Masses == <<1, 3, 1>>

\* the (layer1, layer2) permissions a matrix declares
Permissions(matrix) ==
    {p \in LayerNames \X LayerNames :
        p[1] \in DOMAIN matrix /\ p[2] \in matrix[p[1]]}

\* collision matrices: layer name -> the non-empty list of layer names it
\* collides with, declaring at most MaxPermissions permissions
Matrices ==
    {m \in UNION { [D -> SUBSET LayerNames \ {{}}] : D \in SUBSET LayerNames } :
        Cardinality(Permissions(m)) <= MaxPermissions}

\* restitution arguments: the default 0.5 (line 436), and 1
Restitutions == { Fraction(1, 2), Fraction(1, 1) }

NoBody == Body("sphere", Zero3, Zero3, 1, 0, Zero3)

NoPair ==
    [valid |-> FALSE, id1 |-> 0, id2 |-> 0, skipped |-> FALSE,
     read1 |-> NoBody, read2 |-> NoBody,
     detected |-> FALSE, raw |-> NoNormal, used |-> NoNormal,
     written |-> FALSE]

NoCall == [op |-> "none"]

\* no GravitySystem has been constructed
NoGravitySystem == [affected_objects |-> <<>>]

MakeBody(shape, x, vx, mass) ==
    Body(shape, Vec(x, 0, 0), Vec(vx, 0, 0), mass,
         IF shape = "sphere" THEN SphereRadius ELSE 0,
         IF shape = "box" THEN BoxHalfSize ELSE Zero3)

\* CollisionManager.__init__ (lines 375-378), and the snapshot the caller holds
Init ==
    /\ collision_layers = <<>>
    /\ \E shapes \in [Ids -> Shapes], xs \in XChoices, vxs \in VxChoices :
          heap = [id \in Ids |-> MakeBody(shapes[id], xs[id], vxs[id], Masses[id])]
    /\ game_objects = [id \in Ids |-> id]
    /\ updated_objects = <<>>
    /\ collision_matrix = <<>>
    /\ restitution = Fraction(1, 2)
    /\ pc = "idle"
    /\ i = 0
    /\ j = 0
    /\ input0 = <<>>
    /\ lastPair = NoPair
    /\ exact = TRUE
    /\ layerOps = 0
    /\ call = NoCall
    /\ ret = NoCall
    /\ tick = 0
    /\ gravity_system = NoGravitySystem

----------------------------------------------------------------------------
(* Layer management *)

\* add_to_layer (lines 388-391)
AddedToLayer(layers, object_id, layer_name) ==
    IF layer_name \notin DOMAIN layers
    THEN [name \in DOMAIN layers \cup {layer_name} |->
            IF name = layer_name THEN {object_id} ELSE layers[name]]
    ELSE [layers EXCEPT ![layer_name] = @ \cup {object_id}]

\* remove_from_layer, mutated: the body is taken out of every layer
RemovedFromEveryLayer(layers, object_id, layer_name) ==
    [name \in DOMAIN layers |-> layers[name] \ {object_id}]

\* remove_from_layer (lines 401-402)
RemovedFromLayer(layers, object_id, layer_name) ==
    IF layer_name \in DOMAIN layers
    THEN [layers EXCEPT ![layer_name] = @ \ {object_id}]
    ELSE layers

AddToLayer(object_id, layer_name) ==
    /\ pc = "idle"
    /\ layerOps < MaxLayerOps
    /\ collision_layers' = AddedToLayer(collision_layers, object_id, layer_name)
    /\ layerOps' = layerOps + 1
    /\ UNCHANGED << heap, game_objects, updated_objects, collision_matrix,
                    restitution, pc, i, j, input0, lastPair, exact, call, ret,
                    tick,
                    gravity_system >>

RemoveFromLayer(object_id, layer_name) ==
    /\ pc = "idle"
    /\ layerOps < MaxLayerOps
    /\ collision_layers' = RemovedFromLayer(collision_layers, object_id, layer_name)
    /\ layerOps' = layerOps + 1
    /\ UNCHANGED << heap, game_objects, updated_objects, collision_matrix,
                    restitution, pc, i, j, input0, lastPair, exact, call, ret,
                    tick,
                    gravity_system >>

----------------------------------------------------------------------------
(* process_collisions *)

\* entry: lines 454-458
ProcessCollisions(matrix, rest) ==
    /\ pc = "idle"
    /\ collision_matrix' = matrix
    /\ restitution' = rest
    /\ updated_objects' = DictCopy(game_objects)
    /\ input0' = [id \in DOMAIN game_objects |-> heap[game_objects[id]]]
    /\ i' = 1
    /\ j' = 2
    /\ pc' = "pairs"
    /\ lastPair' = NoPair
    /\ UNCHANGED << collision_layers, heap, game_objects, exact, layerOps,
                    call, ret, tick,
                    gravity_system >>

\* the heap after the assignments of lines 508-518 or 535-544, which go
\* through updated_objects
Written(h, updated, obj1_id, obj2_id, r) ==
    IF r.written
    THEN LET h1 == [h EXCEPT ![updated[obj1_id]].velocity = r.velocity1,
                             ![updated[obj1_id]].position = r.pos1]
         IN  [h1 EXCEPT ![updated[obj2_id]].velocity = r.velocity2,
                        ![updated[obj2_id]].position = r.pos2]
    ELSE h

\* one pass of the inner loop body (lines 461-544) and the step to the
\* next pair
PairStep ==
    /\ pc = "pairs"
    /\ i <= Len(object_ids) - 1
    /\ LET obj1_id == object_ids[i]
           obj2_id == object_ids[j]
           checked == ShouldCheckCollision(collision_layers, obj1_id, obj2_id,
                                           collision_matrix)
           obj1 == heap[game_objects[obj1_id]]
           obj2 == heap[game_objects[obj2_id]]
           d == DetectPair(obj1, obj2)
           r == ResolvePair(obj1, obj2, d, restitution)
       IN  IF ~checked
           THEN /\ lastPair' = [NoPair EXCEPT !.valid = TRUE, !.id1 = obj1_id,
                                              !.id2 = obj2_id, !.skipped = TRUE]
                /\ pc' = pc
                /\ UNCHANGED << heap, exact >>
           ELSE IF MissingShapeParameter(obj1, obj2)
           THEN /\ lastPair' = [NoPair EXCEPT !.valid = TRUE, !.id1 = obj1_id,
                                              !.id2 = obj2_id, !.read1 = obj1,
                                              !.read2 = obj2]
                /\ pc' = "raised"
                /\ UNCHANGED << heap, exact >>
           ELSE /\ lastPair' =
                     [valid |-> TRUE, id1 |-> obj1_id, id2 |-> obj2_id,
                      skipped |-> FALSE, read1 |-> obj1, read2 |-> obj2,
                      detected |-> d.detected, raw |-> d.raw, used |-> d.used,
                      written |-> r.written]
                /\ heap' = Written(heap, updated_objects, obj1_id, obj2_id, r)
                /\ exact' = (exact /\ r.exact)
                /\ pc' = IF r.raised THEN "raised" ELSE pc
    /\ IF j < Len(object_ids)
       THEN i' = i /\ j' = j + 1
       ELSE i' = i + 1 /\ j' = i + 2
    /\ UNCHANGED << collision_layers, game_objects, updated_objects,
                    collision_matrix, restitution, input0, layerOps, call, ret,
                    tick,
                    gravity_system >>

\* "return updated_objects" (line 546)
Return ==
    /\ pc = "pairs"
    /\ i > Len(object_ids) - 1
    /\ pc' = "returned"
    /\ UNCHANGED << collision_layers, heap, game_objects, updated_objects,
                    collision_matrix, restitution, i, j, input0, lastPair,
                    exact, layerOps, call, ret, tick,
                    gravity_system >>

Next ==
    \/ \E object_id \in Ids, layer_name \in LayerNames :
          AddToLayer(object_id, layer_name)
    \/ \E object_id \in Ids, layer_name \in LayerNames :
          RemoveFromLayer(object_id, layer_name)
    \/ \E matrix \in Matrices, rest \in Restitutions :
          ProcessCollisions(matrix, rest)
    \/ PairStep
    \/ Return

Spec == Init /\ [][Next]_vars

\* the fixed-point arithmetic of the model never rounded: every quotient
\* and root taken by the resolver was exact
ArithmeticExact == exact


----------------------------------------------------------------------------
(* Specifications of the detector functions: the arguments are drawn in    *)
(* the initial state and one step makes the call.  The manager is idle.    *)

ManagerIdle ==
    /\ collision_layers = <<>>
    /\ heap = <<>>
    /\ game_objects = <<>>
    /\ updated_objects = <<>>
    /\ collision_matrix = <<>>
    /\ restitution = Fraction(1, 2)
    /\ pc = "idle"
    /\ i = 0
    /\ j = 0
    /\ input0 = <<>>
    /\ lastPair = NoPair
    /\ exact = TRUE
    /\ layerOps = 0
    /\ tick = 0
    /\ gravity_system = NoGravitySystem

Coords == 0..MaxCoord

Points == {Vec(x, y, z) : x \in Coords, y \in Coords, z \in Coords}

Radii == 1..MaxRadius

InitSphere ==
    /\ ManagerIdle
    /\ \E pos1 \in Points, pos2 \in Points, radius1 \in Radii, radius2 \in Radii :
          call = [op |-> "check_sphere_sphere", pos1 |-> pos1,
                  radius1 |-> radius1, pos2 |-> pos2, radius2 |-> radius2]
    /\ ret = NoCall

CallCheckSphereSphere ==
    /\ call.op = "check_sphere_sphere"
    /\ ret = NoCall
    /\ ret' = [op |-> "check_sphere_sphere",
               result |-> CheckSphereSphere(call.pos1, call.radius1,
                                            call.pos2, call.radius2)]
    /\ UNCHANGED << managerVars, call >>

SpecSphere == InitSphere /\ [][CallCheckSphereSphere]_vars

\* box centres lie on the even points, so that boxes of half extent 1 or
\* more can be apart, touching or overlapping
BoxPoints == {VScale(p, 2) : p \in Points}

HalfSizes == {Vec(x, y, z) : x \in 1..MaxHalf, y \in 1..MaxHalf, z \in 1..MaxHalf}

CubeHalfSizes == {Vec(h, h, h) : h \in 1..MaxHalf}

InitBox ==
    /\ ManagerIdle
    /\ \E pos1 \in BoxPoints, pos2 \in BoxPoints,
          half_size1 \in HalfSizes, half_size2 \in CubeHalfSizes :
          call = [op |-> "check_box_box", pos1 |-> pos1,
                  half_size1 |-> half_size1, pos2 |-> pos2,
                  half_size2 |-> half_size2]
    /\ ret = NoCall

CallCheckBoxBox ==
    /\ call.op = "check_box_box"
    /\ ret = NoCall
    /\ ret' = [op |-> "check_box_box",
               result |-> CheckBoxBox(call.pos1, call.half_size1,
                                      call.pos2, call.half_size2)]
    /\ UNCHANGED << managerVars, call >>

SpecBox == InitBox /\ [][CallCheckBoxBox]_vars

\* ray_cast candidates: spheres and cubes of size 1 or 2 on the z axis and
\* at one point beside it
RaySizes == {1, 2}

RayPositions == {Vec(0, 0, z) : z \in 0..MaxRayCoord} \cup {Vec(1, 0, 0)}

RayObjects ==
    {Sphere(p, r) : p \in RayPositions, r \in RaySizes}
      \cup {Box(p, Vec(h, h, h)) : p \in RayPositions, h \in RaySizes}

RayOrigins == {Vec(0, 0, 0), Vec(0, 0, 1)}

\* axis-aligned unit directions
RayDirections ==
    {Dir(Vec(0, 0, 1), 1), Dir(Vec(0, 0, -1), 1), Dir(Vec(1, 0, 0), 1)}

ObjectLists == UNION { [1..n -> RayObjects] : n \in 0..MaxObjects }

\* the half chord of every sphere the ray passes through is an integer
ExactChord(ray_origin, ray_direction, objects) ==
    \A k \in 1..Len(objects) :
        objects[k].type = "sphere" =>
            LET c == ClosestPointDistSquared(ray_origin, ray_direction, objects[k])
                rr == objects[k].radius * objects[k].radius
            IN  c <= rr => IsSquare(rr - c)

InitRay ==
    /\ ManagerIdle
    /\ \E ray_origin \in RayOrigins, ray_direction \in RayDirections,
          max_distance \in {1, MaxDistance}, objects \in ObjectLists :
          /\ ExactChord(ray_origin, ray_direction, objects)
          /\ call = [op |-> "ray_cast", ray_origin |-> ray_origin,
                     ray_direction |-> ray_direction,
                     max_distance |-> max_distance, objects |-> objects]
    /\ ret = NoCall

CallRayCast ==
    /\ call.op = "ray_cast"
    /\ ret = NoCall
    /\ ret' = [op |-> "ray_cast",
               result |-> RayCast(call.ray_origin, call.ray_direction,
                                  call.max_distance, call.objects)]
    /\ UNCHANGED << managerVars, call >>

SpecRay == InitRay /\ [][CallRayCast]_vars

\* ray_cast against one box, with rays along z and along the diagonals
\* (3, 4, 0) / 5 and (4, 3, 0) / 5.  Box centres and half extents on x and
\* y are multiples of SlabCell, so that the slab times of the diagonal rays
\* are integers.
SlabCell == 3 * 4

SlabCentres ==
    {Vec(SlabCell * cx, SlabCell * cy, 0) :
        cx \in -1..MaxSlabCell, cy \in -1..MaxSlabCell}

SlabHalfSizes ==
    {Vec(SlabCell, SlabCell, SlabCell), Vec(SlabCell, 2 * SlabCell, SlabCell),
     Vec(2 * SlabCell, SlabCell, SlabCell)}

\* the boxes of SlabCentres, and the box of centre (0, 0, 5) and half
\* size (1, 1, 1)
SlabBoxes ==
    {Box(p, h) : p \in SlabCentres, h \in SlabHalfSizes}
      \cup {Box(Vec(0, 0, 5), Vec(1, 1, 1))}

SlabOrigins == {Vec(0, 0, 0), Vec(0, 0, 5), Vec(SlabCell, SlabCell, 0)}

SlabDirections ==
    {Dir(Vec(0, 0, 1), 1), Dir(Vec(0, 0, -1), 1), Dir(Vec(3, 4, 0), 5),
     Dir(Vec(4, 3, 0), 5), Dir(Vec(-3, -4, 0), 5), Dir(Vec(3, -4, 0), 5)}

SlabMaxDistances == {10, 10 * 10}

\* every slab time of the ray against the box is an integer, and so is
\* the point of the ray at that time
ExactSlabs(ray_origin, ray_direction, obj) ==
    \A k \in Axes :
        ray_direction.num[k] # 0 =>
            \A bound \in {obj.position[k] - obj.half_size[k],
                          obj.position[k] + obj.half_size[k]} :
                /\ ((bound - ray_origin[k]) * ray_direction.den)
                      % Abs(ray_direction.num[k]) = 0
                /\ \A m \in Axes :
                      (SlabTime(bound, ray_origin, ray_direction, k)
                         * ray_direction.num[m]) % ray_direction.den = 0

InitRayBox ==
    /\ ManagerIdle
    /\ \E ray_origin \in SlabOrigins, ray_direction \in SlabDirections,
          max_distance \in SlabMaxDistances, obj \in SlabBoxes :
          /\ ExactSlabs(ray_origin, ray_direction, obj)
          /\ call = [op |-> "ray_cast", ray_origin |-> ray_origin,
                     ray_direction |-> ray_direction,
                     max_distance |-> max_distance, objects |-> <<obj>>]
    /\ ret = NoCall

SpecRayBox == InitRayBox /\ [][CallRayCast]_vars

----------------------------------------------------------------------------
(* Specification of resolve_sphere_collision: the arguments are drawn in   *)
(* the initial state, one step makes the call and a second step calls it   *)
(* again on the velocities the first call returned.  Units of 1/100.       *)

\* a speed unit that keeps the impulses of the drawn calls on the integers
SpeedUnit == 8 * 100

ResolveVelocities ==
    {Vec(SpeedUnit * a, SpeedUnit * b, 0) :
        a \in (0 - MaxSpeed)..MaxSpeed, b \in (0 - MaxSpeed)..MaxSpeed}

\* centre of the second sphere, the first being at the origin: coincident,
\* on the x axis either side, oblique, and on the z axis
ResolveCentres ==
    {Vec(0, 0, 0), Vec(100, 0, 0), Vec(-100, 0, 0), Vec(60, 80, 0),
     Vec(0, 0, 150)}

\* (mass1, mass2)
ResolveMasses == {<<1, 1>>, <<2, 2>>, <<1, 3>>}

ResolveRestitutions == {Fraction(0, 1), Fraction(1, 2), Fraction(1, 1)}

InitResolve ==
    /\ ManagerIdle
    /\ \E pos2 \in ResolveCentres, velocity1 \in ResolveVelocities,
          velocity2 \in ResolveVelocities, masses \in ResolveMasses,
          rest \in ResolveRestitutions :
          /\ ResolveSphereCollision(Zero3, velocity1, masses[1], 100,
                                    pos2, velocity2, masses[2], 100, rest).exact
          /\ call = [op |-> "resolve_sphere_collision",
                     pos1 |-> Zero3, velocity1 |-> velocity1,
                     mass1 |-> masses[1], radius1 |-> 100,
                     pos2 |-> pos2, velocity2 |-> velocity2,
                     mass2 |-> masses[2], radius2 |-> 100,
                     restitution |-> rest]
    /\ ret = NoCall

\* the first call; "first" keeps its result
CallResolveSphereCollision ==
    /\ call.op = "resolve_sphere_collision"
    /\ ret = NoCall
    /\ LET r == ResolveSphereCollision(
                    call.pos1, call.velocity1, call.mass1, call.radius1,
                    call.pos2, call.velocity2, call.mass2, call.radius2,
                    call.restitution)
       IN  ret' = [op |-> "resolve_sphere_collision", calls |-> 1,
                   first |-> r, result |-> r]
    /\ UNCHANGED << managerVars, call >>

\* the call repeated on the velocities the first call returned
CallResolveSphereCollisionAgain ==
    /\ call.op = "resolve_sphere_collision"
    /\ ret # NoCall
    /\ ret.calls = 1
    /\ LET r == ResolveSphereCollision(
                    call.pos1, ret.result.velocity1, call.mass1, call.radius1,
                    call.pos2, ret.result.velocity2, call.mass2, call.radius2,
                    call.restitution)
       IN  ret' = [ret EXCEPT !.calls = 2, !.result = r]
    /\ UNCHANGED << managerVars, call >>

NextResolve == CallResolveSphereCollision \/ CallResolveSphereCollisionAgain

SpecResolve == InitResolve /\ [][NextResolve]_vars

(* resolve_penetration called on two spheres; units of 1/100.              *)

PenetrationCentres ==
    {Vec(0, 0, 0), Vec(100, 0, 0), Vec(-100, 0, 0), Vec(60, 80, 0),
     Vec(0, 0, 150), Vec(300, 0, 0)}

\* radii 0.25, 0.5, 1 and 2
PenetrationRadii == {25, 50, 100, 200}

InitPenetration ==
    /\ ManagerIdle
    /\ \E pos1 \in PenetrationCentres, pos2 \in PenetrationCentres,
          radius1 \in PenetrationRadii, radius2 \in PenetrationRadii :
          /\ ResolvePenetration(pos1, radius1, pos2, radius2).exact
          /\ call = [op |-> "resolve_penetration", pos1 |-> pos1,
                     radius1 |-> radius1, pos2 |-> pos2, radius2 |-> radius2]
    /\ ret = NoCall

CallResolvePenetration ==
    /\ call.op = "resolve_penetration"
    /\ ret = NoCall
    /\ ret' = [op |-> "resolve_penetration",
               result |-> ResolvePenetration(call.pos1, call.radius1,
                                             call.pos2, call.radius2)]
    /\ UNCHANGED << managerVars, call >>

SpecPenetration == InitPenetration /\ [][CallResolvePenetration]_vars

----------------------------------------------------------------------------
(* Specifications of the Motion functions.  Units of 1/100.                *)

\* velocities on the grid of 1.00, horizontal and vertical
MotionVelocities ==
    {Vec(100 * a, 100 * b, 0) :
        a \in (0 - MaxSpeed)..MaxSpeed, b \in (0 - MaxSpeed)..MaxSpeed}

\* gravity vectors: the default (line 13), none, and (0, -10, 0) as set by
\* set_gravity
Gravities == {Vec(0, 0 - GravityMagnitude, 0), Zero3, Vec(0, -1000, 0)}

\* delta_time: 0.1, 1 and 2 seconds
DeltaTimes == {Fraction(1, 10), Fraction(1, 1), Fraction(2, 1)}

InitGravity ==
    /\ ManagerIdle
    /\ \E velocity \in MotionVelocities, is_grounded \in BOOLEAN,
          gravity \in Gravities, delta_time \in DeltaTimes :
          /\ is_grounded \/ FracExact(gravity, delta_time.num, delta_time.den)
          /\ call = [op |-> "apply_gravity",
                     motion |-> MotionParams(gravity, Fraction(1, 100),
                                             Fraction(1, 10)),
                     velocity |-> velocity, is_grounded |-> is_grounded,
                     delta_time |-> delta_time]
    /\ ret = NoCall

CallApplyGravity ==
    /\ call.op = "apply_gravity"
    /\ ret = NoCall
    /\ ret' = [op |-> "apply_gravity",
               result |-> ApplyGravity(call.motion, call.velocity,
                                       call.is_grounded, call.delta_time)]
    /\ UNCHANGED << managerVars, call >>

SpecGravity == InitGravity /\ [][CallApplyGravity]_vars

\* velocities of the bodies given to process_object_motion: the grid of
\* MotionVelocities and two fast horizontal ones
BodyVelocities == MotionVelocities \cup {Vec(2000, 0, 0), Vec(0, 0, 2000)}

\* the is_grounded key of a body: True, False, or no such key
GroundedKeys == {"true", "false", "absent"}

\* a body dict with position and velocity, and is_grounded as said
MotionBody(position, velocity, grounded) ==
    IF grounded = "absent"
    THEN [position |-> position, velocity |-> velocity]
    ELSE [position |-> position, velocity |-> velocity,
          is_grounded |-> (grounded = "true")]

\* air resistance and ground friction as constructed (lines 14-15) and as
\* set by set_friction_coefficients
AirResistances == {Fraction(0, 1), Fraction(1, 100)}

GroundFrictions == {Fraction(0, 1), Fraction(1, 10), Fraction(1, 1)}

InitMotion ==
    /\ ManagerIdle
    /\ \E position \in {Zero3, Vec(0, 100, 0)}, velocity \in BodyVelocities,
          grounded \in GroundedKeys, gravity \in Gravities,
          air_resistance \in AirResistances,
          ground_friction \in GroundFrictions, delta_time \in DeltaTimes :
          LET motion == MotionParams(gravity, air_resistance, ground_friction)
              obj == MotionBody(position, velocity, grounded)
          IN  /\ MotionExact(motion, obj, delta_time)
              /\ call = [op |-> "process_object_motion", motion |-> motion,
                         obj |-> obj, delta_time |-> delta_time]
    /\ ret = NoCall

CallProcessObjectMotion ==
    /\ call.op = "process_object_motion"
    /\ ret = NoCall
    /\ ret' = [op |-> "process_object_motion",
               result |-> ProcessObjectMotion(call.motion, call.obj,
                                              call.delta_time)]
    /\ UNCHANGED << managerVars, call >>

SpecMotion == InitMotion /\ [][CallProcessObjectMotion]_vars

(* apply_movement_input called tick after tick with zero input: each call  *)
(* is given the body the previous call returned.                           *)

\* horizontal velocities of the controlled body: along x, along z and
\* along the diagonals (3, 0, 4) and (-4, 0, 3)
DecayVelocities ==
    {Vec(100, 0, 0), Vec(-200, 0, 0), Vec(0, 0, 100), Vec(0, 0, -500),
     Vec(300, 0, 400), Vec(-400, 0, 300), Vec(2500, 0, 0), Vec(750, 0, 0)}

\* delta_time: 0.01, 0.1 and 1 seconds
DecayDeltaTimes == {Fraction(1, 100), Fraction(1, 10), Fraction(1, 1)}

\* (horizontal part of v) of a body
Horizontal(obj) == Vec(obj.velocity[1], 0, obj.velocity[3])

InitDecay ==
    /\ ManagerIdle
    /\ \E velocity \in DecayVelocities, vy \in {0, -100},
          grounded \in GroundedKeys, delta_time \in DecayDeltaTimes :
          LET obj == MotionBody(Zero3, Vec(velocity[1], vy, velocity[3]),
                                grounded)
          IN  /\ call = [op |-> "apply_movement_input", omni |-> DefaultOmni,
                         obj |-> obj, input_direction |-> Zero3,
                         delta_time |-> delta_time]
              /\ ret = [op |-> "apply_movement_input", ticks |-> 0,
                        before |-> obj, obj |-> obj, exact |-> TRUE]

\* one more tick: the caller passes the body it got back
CallApplyMovementInput ==
    /\ call.op = "apply_movement_input"
    /\ ret.ticks < MaxTicks
    /\ ret.exact
    /\ ret' = [op |-> "apply_movement_input", ticks |-> ret.ticks + 1,
               before |-> ret.obj,
               obj |-> ApplyMovementInput(call.omni, ret.obj,
                                          call.input_direction,
                                          call.delta_time, FALSE, FALSE),
               exact |-> MovementVelocity(call.omni, ret.obj,
                                          call.input_direction,
                                          call.delta_time, FALSE, FALSE).exact]
    /\ UNCHANGED << managerVars, call >>

SpecDecay == InitDecay /\ [][CallApplyMovementInput]_vars

(* process_jump called on a body, and once more on the body it returned    *)

\* the mass key of a body: no such key (the code then takes 1.0), 1 or 2
MassKeys == {"absent", "one", "two"}

\* obj with its mass key as said
WithMass(obj, mass) ==
    IF mass = "absent" THEN obj
    ELSE Put(obj, "mass", IF mass = "one" THEN 1 ELSE 2)

\* jump forces 4.00, 6.00 and 10.00
JumpForces == {400, 600, 1000}

InitJump ==
    /\ ManagerIdle
    /\ \E velocity \in MotionVelocities, grounded \in GroundedKeys,
          mass \in MassKeys, jump_force \in JumpForces :
          call = [op |-> "process_jump",
                  obj |-> WithMass(MotionBody(Vec(0, 100, 0), velocity,
                                              grounded), mass),
                  jump_force |-> jump_force]
    /\ ret = NoCall

CallProcessJump ==
    /\ call.op = "process_jump"
    /\ ret = NoCall
    /\ ret' = [op |-> "process_jump", calls |-> 1,
               first |-> ProcessJump(call.obj, call.jump_force),
               result |-> ProcessJump(call.obj, call.jump_force)]
    /\ UNCHANGED << managerVars, call >>

\* the caller jumps again with the body it got back
CallProcessJumpAgain ==
    /\ ret.op = "process_jump"
    /\ ret.calls = 1
    /\ ret' = [ret EXCEPT !.calls = 2,
                          !.result = ProcessJump(ret.first, call.jump_force)]
    /\ UNCHANGED << managerVars, call >>

NextJump == CallProcessJump \/ CallProcessJumpAgain

SpecJump == InitJump /\ [][NextJump]_vars

(* MotionPhysicsSystem.update called on a snapshot of one or two bodies    *)

\* the has_physics key of a body: True, False, or no such key
PhysicsKeys == {"true", "false", "absent"}

\* how a body is controlled: no controller, a controller without input,
\* or a controller with the input "forward"
ControllerKeys == {"none", "idle", "forward"}

\* obj with its has_physics key as said
WithPhysics(obj, physics) ==
    IF physics = "absent" THEN obj
    ELSE Put(obj, "has_physics", physics = "true")

\* obj with has_controller and input_direction as said
WithController(obj, controller) ==
    IF controller = "none" THEN obj
    ELSE Put(Put(obj, "has_controller", TRUE), "input_direction",
             IF controller = "idle" THEN Zero3 ELSE Vec(0, 0, 1))

UpdateBodies ==
    {WithController(WithPhysics(MotionBody(Zero3, velocity, grounded),
                                physics), controller) :
        velocity \in {Zero3, Vec(100, 0, 0)},
        grounded \in {"absent", "true"},
        physics \in PhysicsKeys, controller \in ControllerKeys}

\* the ids of the snapshots
UpdateIdSets == {{1}, {1, 2}, {2, 5}}

InitUpdate ==
    /\ ManagerIdle
    /\ \E ids \in UpdateIdSets, gravity \in {Zero3, Vec(0, -1000, 0)},
          delta_time \in {Fraction(1, 10), Fraction(1, 1)} :
          \E objects \in [ids -> UpdateBodies] :
             LET motion == MotionParams(gravity, Fraction(0, 1), Fraction(0, 1))
             IN  /\ \A obj_id \in ids :
                       UpdateExact(motion, DefaultOmni, objects[obj_id],
                                   delta_time)
                 /\ call = [op |-> "update", motion |-> motion,
                            omni |-> DefaultOmni, objects |-> objects,
                            delta_time |-> delta_time]
    /\ ret = NoCall

CallUpdate ==
    /\ call.op = "update"
    /\ ret = NoCall
    /\ ret' = [op |-> "update",
               result |-> Update(call.motion, call.omni, call.objects,
                                 call.delta_time)]
    /\ UNCHANGED << managerVars, call >>

SpecUpdate == InitUpdate /\ [][CallUpdate]_vars

----------------------------------------------------------------------------
(* A caller's loop over two spheres: process_collisions on the snapshot,   *)
(* then process_object_motion on every body of the snapshot returned, and  *)
(* so on.  Sphere 1 starts at the origin and moves along x towards sphere  *)
(* 2, which rests; both are in the layer "player", which collides with     *)
(* itself.  No gravity, no air resistance, no friction; delta_time is 1.   *)

\* (x velocity of sphere 1, x position of sphere 2, mass of each sphere)
Scenarios ==
    {<<vx, x, mass>> : vx \in {100, 200}, x \in {300, 400, 500},
                       mass \in {1, 2}}

InitGame ==
    /\ collision_layers = [name \in {"player"} |-> {1, 2}]
    /\ \E sc \in Scenarios, rest \in {Fraction(1, 1), Fraction(1, 2)} :
          /\ heap = << Body("sphere", Zero3, Vec(sc[1], 0, 0), sc[3], 100, Zero3),
                       Body("sphere", Vec(sc[2], 0, 0), Zero3, sc[3], 100, Zero3) >>
          /\ call = [op |-> "loop",
                     motion |-> MotionParams(Zero3, Fraction(0, 1), Fraction(0, 1)),
                     delta_time |-> Fraction(1, 1),
                     collision_matrix |-> [name \in {"player"} |-> {"player"}],
                     restitution |-> rest,
                     velocity1 |-> Vec(sc[1], 0, 0)]
    /\ game_objects = <<1, 2>>
    /\ updated_objects = <<>>
    /\ collision_matrix = <<>>
    /\ restitution = Fraction(1, 2)
    /\ pc = "idle"
    /\ i = 0
    /\ j = 0
    /\ input0 = <<>>
    /\ lastPair = NoPair
    /\ exact = TRUE
    /\ layerOps = 0
    /\ ret = NoCall
    /\ tick = 0
    /\ gravity_system = NoGravitySystem

\* the caller takes the snapshot process_collisions returned and moves
\* every body of it by process_object_motion, which makes new body dicts
Integrate ==
    /\ pc = "returned"
    /\ tick < MaxTicks
    /\ game_objects' = updated_objects
    /\ heap' = [a \in DOMAIN heap |->
                  ProcessObjectMotion(call.motion, heap[a], call.delta_time)]
    /\ exact' = (exact /\ \A a \in DOMAIN heap :
                              MotionExact(call.motion, heap[a], call.delta_time))
    /\ tick' = tick + 1
    /\ pc' = "idle"
    /\ UNCHANGED << collision_layers, updated_objects, collision_matrix,
                    restitution, i, j, input0, lastPair, layerOps, call, ret,
                    gravity_system >>

NextGame ==
    \/ ProcessCollisions(call.collision_matrix, call.restitution)
    \/ PairStep
    \/ Return
    \/ Integrate

SpecGame == InitGame /\ [][NextGame]_vars

----------------------------------------------------------------------------
(* process_collisions called on a snapshot of two bodies of which the      *)
(* second may be invalid, with a matrix that may name a layer nobody was   *)
(* added to.                                                               *)

\* what is wrong with the second body: nothing, mass 0, mass -2, or no
\* radius / half_size key
Defects == {"none", "zero_mass", "negative_mass", "no_shape_parameter"}

\* the body dict without the key
Without(obj, key) == [k \in DOMAIN obj \ {key} |-> obj[k]]

DefectiveBody(shape, x, vx, defect) ==
    LET mass == IF defect = "zero_mass" THEN 0
                ELSE IF defect = "negative_mass" THEN 0 - 2 ELSE 3
        body == MakeBody(shape, x, vx, mass)
        trimmed == Without(Without(body, "radius"), "half_size")
    IN  IF defect = "no_shape_parameter" THEN trimmed
        ELSE IF shape = "sphere" THEN Without(body, "half_size")
        ELSE Without(body, "radius")

\* matrices over the known layer "player" and the unknown layer "ghost"
InvalidMatrices ==
    { [name \in {"player"} |-> {"player"}],
      [name \in {"player"} |-> {"ghost"}],
      [name \in {"ghost"} |-> {"player"}] }

InitInvalid ==
    /\ \E members \in {{1, 2}, {1}} :
          collision_layers = [name \in {"player"} |-> members]
    /\ \E shapes \in [{1, 2} -> Shapes], defect \in Defects,
          x \in {5 * Grid, 25 * Grid}, vx \in {VStep, 0 - VStep},
          matrix \in InvalidMatrices :
          /\ heap = << DefectiveBody(shapes[1], 0, vx, "none"),
                       DefectiveBody(shapes[2], x, 0, defect) >>
          /\ call = [op |-> "process_collisions", collision_matrix |-> matrix,
                     restitution |-> Fraction(1, 1)]
    /\ game_objects = <<1, 2>>
    /\ updated_objects = <<>>
    /\ collision_matrix = <<>>
    /\ restitution = Fraction(1, 2)
    /\ pc = "idle"
    /\ i = 0
    /\ j = 0
    /\ input0 = <<>>
    /\ lastPair = NoPair
    /\ exact = TRUE
    /\ layerOps = 0
    /\ ret = NoCall
    /\ tick = 0
    /\ gravity_system = NoGravitySystem

NextInvalid ==
    \/ /\ call.op = "process_collisions"
       /\ input0 = <<>>
       /\ ProcessCollisions(call.collision_matrix, call.restitution)
    \/ PairStep
    \/ Return

SpecInvalid == InitInvalid /\ [][NextInvalid]_vars

----------------------------------------------------------------------------
(* GravitySystem (src/physics/engine/gravity.py).  A game object is an     *)
(* object with attributes, held on the heap: a record whose fields are     *)
(* its attributes.  Velocities and gravity_constant are in units of 1/100. *)
(* gravity_direction and gravity_vector are rational vectors num / den;    *)
(* den = 0 stands for the vector of nan that numpy makes of 0 / 0.  The    *)
(* field velocity_nan of an object says that its velocity holds nan.       *)

\* "gravity_direction / np.linalg.norm(gravity_direction)" (lines 20, 119)
Normalized(gravity_direction) ==
    IF gravity_direction = Zero3 THEN Dir(Zero3, 0)
    ELSE Dir(gravity_direction, ISqrt(Dot(gravity_direction, gravity_direction)))

\* "self.gravity_direction * self.gravity_constant" (lines 21, 110, 120)
Times(direction, gravity_constant) ==
    Dir(VScale(direction.num, gravity_constant), direction.den)

\* __init__ (lines 19-22)
GravitySystem(gravity_constant, gravity_direction) ==
    [gravity_constant |-> gravity_constant,
     gravity_direction |-> Normalized(gravity_direction),
     gravity_vector |-> Times(Normalized(gravity_direction), gravity_constant),
     affected_objects |-> <<>>]

\* the objects of a list
Elements(list) == {list[k] : k \in DOMAIN list}

\* "list.remove(x)": the list without its first x
RECURSIVE ListRemove(_, _)
ListRemove(list, x) ==
    IF list = <<>> THEN <<>>
    ELSE IF Head(list) = x THEN Tail(list)
    ELSE <<Head(list)>> \o ListRemove(Tail(list), x)

\* register_object (lines 31-32)
Registered(system, game_object) ==
    IF game_object \notin Elements(system.affected_objects)
    THEN [system EXCEPT !.affected_objects = Append(@, game_object)]
    ELSE system

\* unregister_object (lines 41-42)
Unregistered(system, game_object) ==
    IF game_object \in Elements(system.affected_objects)
    THEN [system EXCEPT !.affected_objects = ListRemove(@, game_object)]
    ELSE system

\* set_gravity_strength (lines 109-110)
WithStrength(system, gravity_constant) ==
    [system EXCEPT !.gravity_constant = gravity_constant,
                   !.gravity_vector = Times(system.gravity_direction,
                                            gravity_constant)]

\* set_gravity_direction (lines 119-120)
WithDirection(system, gravity_direction) ==
    [system EXCEPT !.gravity_direction = Normalized(gravity_direction),
                   !.gravity_vector = Times(Normalized(gravity_direction),
                                            system.gravity_constant)]

\* apply_gravity, mutated: the acceleration is divided by the mass
GravityAppliedPerMass(system, object, delta_time) ==
    IF "velocity" \in DOMAIN object /\ "mass" \in DOMAIN object
    THEN IF system.gravity_vector.den = 0
         THEN [object EXCEPT !.velocity_nan = TRUE]
         ELSE [object EXCEPT !.velocity =
                  VAdd(@, VFrac(system.gravity_vector.num, delta_time.num,
                                system.gravity_vector.den * delta_time.den
                                  * object.mass))]
    ELSE object

\* apply_gravity (lines 52-59) on the object itself
GravityApplied(system, object, delta_time) ==
    IF "velocity" \in DOMAIN object /\ "mass" \in DOMAIN object
    THEN IF system.gravity_vector.den = 0
         THEN [object EXCEPT !.velocity_nan = TRUE]
         ELSE [object EXCEPT !.velocity =
                  VAdd(@, VFrac(system.gravity_vector.num, delta_time.num,
                                system.gravity_vector.den * delta_time.den))]
    ELSE object

\* update (lines 99-100): apply_gravity on the objects of the list, in order
RECURSIVE GravityUpdated(_, _, _, _)
GravityUpdated(system, objects, list, delta_time) ==
    IF list = <<>> THEN objects
    ELSE GravityUpdated(system,
             [objects EXCEPT ![Head(list)] =
                 GravityApplied(system, objects[Head(list)], delta_time)],
             Tail(list), delta_time)

\* the quotient update takes is exact
GravityExact(system, delta_time) ==
    system.gravity_vector.den = 0
       \/ FracExact(system.gravity_vector.num, delta_time.num,
                    system.gravity_vector.den * delta_time.den)

(* A GravitySystem with the default arguments and three game objects: two  *)
(* bodies and an object that has no mass attribute.  call is the last call *)
(* made; ret.wanted is the set of objects whose last register_object /     *)
(* unregister_object call was a register_object, ret.repeats the number of *)
(* register_object calls made for an object already wanted, ret.before    *)
(* and ret.system the objects and the GravitySystem as they were before    *)
(* the last call.                                                          *)

GameObjects ==
    << [position |-> Zero3, velocity |-> Zero3, mass |-> 1,
        velocity_nan |-> FALSE],
       [position |-> Vec(100, 0, 0), velocity |-> Vec(100, 200, 0), mass |-> 2,
        velocity_nan |-> FALSE],
       [position |-> Zero3, velocity |-> Vec(0, 100, 0),
        velocity_nan |-> FALSE] >>

\* gravity strengths 0.00 and 5.00
GravityStrengths == {0, 500}

\* arguments of set_gravity_direction: not normalized, oblique, zero
GravityDirections == {Vec(0, 0, 2), Vec(3, 4, 0), Zero3}

GravityDeltaTimes == {Fraction(1, 1), Fraction(2, 1)}

InitGravitySystem ==
    /\ collision_layers = <<>>
    /\ heap = GameObjects
    /\ game_objects = <<>>
    /\ updated_objects = <<>>
    /\ collision_matrix = <<>>
    /\ restitution = Fraction(1, 2)
    /\ pc = "idle"
    /\ i = 0
    /\ j = 0
    /\ input0 = <<>>
    /\ lastPair = NoPair
    /\ exact = TRUE
    /\ layerOps = 0
    /\ tick = 0
    /\ gravity_system = GravitySystem(GravityMagnitude, Vec(0, 0 - 1, 0))
    /\ call = [op |-> "__init__", calls |-> 0]
    /\ ret = [wanted |-> {}, repeats |-> 0, before |-> GameObjects,
              system |-> GravitySystem(GravityMagnitude, Vec(0, 0 - 1, 0))]

GravityIdle ==
    UNCHANGED << collision_layers, game_objects, updated_objects,
                 collision_matrix, restitution, pc, i, j, input0, lastPair,
                 layerOps, tick >>

RegisterObject(game_object) ==
    /\ call.calls < MaxGravityCalls
    /\ gravity_system' = Registered(gravity_system, game_object)
    /\ call' = [op |-> "register_object", calls |-> call.calls + 1]
    /\ ret' = [wanted |-> ret.wanted \cup {game_object},
               repeats |-> IF game_object \in ret.wanted
                           THEN ret.repeats + 1 ELSE ret.repeats,
               before |-> heap, system |-> gravity_system]
    /\ UNCHANGED << heap, exact >>
    /\ GravityIdle

UnregisterObject(game_object) ==
    /\ call.calls < MaxGravityCalls
    /\ gravity_system' = Unregistered(gravity_system, game_object)
    /\ call' = [op |-> "unregister_object", calls |-> call.calls + 1]
    /\ ret' = [ret EXCEPT !.wanted = @ \ {game_object}, !.before = heap,
                          !.system = gravity_system]
    /\ UNCHANGED << heap, exact >>
    /\ GravityIdle

GravityUpdate(delta_time) ==
    /\ call.calls < MaxGravityCalls
    /\ heap' = GravityUpdated(gravity_system, heap,
                              gravity_system.affected_objects, delta_time)
    /\ exact' = (exact /\ GravityExact(gravity_system, delta_time))
    /\ call' = [op |-> "update", calls |-> call.calls + 1,
                delta_time |-> delta_time]
    /\ ret' = [ret EXCEPT !.before = heap, !.system = gravity_system]
    /\ UNCHANGED gravity_system
    /\ GravityIdle

SetGravityStrength(gravity_constant) ==
    /\ call.calls < MaxGravityCalls
    /\ gravity_system' = WithStrength(gravity_system, gravity_constant)
    /\ call' = [op |-> "set_gravity_strength", calls |-> call.calls + 1]
    /\ ret' = [ret EXCEPT !.before = heap, !.system = gravity_system]
    /\ UNCHANGED << heap, exact >>
    /\ GravityIdle

SetGravityDirection(gravity_direction) ==
    /\ call.calls < MaxGravityCalls
    /\ gravity_system' = WithDirection(gravity_system, gravity_direction)
    /\ call' = [op |-> "set_gravity_direction", calls |-> call.calls + 1]
    /\ ret' = [ret EXCEPT !.before = heap, !.system = gravity_system]
    /\ UNCHANGED << heap, exact >>
    /\ GravityIdle

\* disable_gravity (line 124)
DisableGravity ==
    /\ call.calls < MaxGravityCalls
    /\ gravity_system' = WithStrength(gravity_system, 0)
    /\ call' = [op |-> "disable_gravity", calls |-> call.calls + 1]
    /\ ret' = [ret EXCEPT !.before = heap, !.system = gravity_system]
    /\ UNCHANGED << heap, exact >>
    /\ GravityIdle

\* enable_gravity (line 128), with the default argument 9.81
EnableGravity ==
    /\ call.calls < MaxGravityCalls
    /\ gravity_system' = WithStrength(gravity_system, GravityMagnitude)
    /\ call' = [op |-> "enable_gravity", calls |-> call.calls + 1]
    /\ ret' = [ret EXCEPT !.before = heap, !.system = gravity_system]
    /\ UNCHANGED << heap, exact >>
    /\ GravityIdle

NextGravitySystem ==
    \/ \E game_object \in DOMAIN GameObjects : RegisterObject(game_object)
    \/ \E game_object \in DOMAIN GameObjects : UnregisterObject(game_object)
    \/ \E delta_time \in GravityDeltaTimes : GravityUpdate(delta_time)
    \/ \E gravity_constant \in GravityStrengths :
          SetGravityStrength(gravity_constant)
    \/ \E gravity_direction \in GravityDirections :
          SetGravityDirection(gravity_direction)
    \/ DisableGravity
    \/ EnableGravity

SpecGravitySystem == InitGravitySystem /\ [][NextGravitySystem]_vars


----------------------------------------------------------------------------
(* Properties of process_collisions (specification Spec) *)

\* the pair loop has processed, and not skipped, a pair
PairChecked == lastPair.valid /\ ~lastPair.skipped

\* C1: within one process_collisions call every pair is detected and
\* resolved from the positions and velocities its two bodies had in the
\* input snapshot when the call began, never from values written while an
\* earlier pair of the same pass was resolved.
C1_PairsReadInputSnapshot ==
    PairChecked =>
        /\ lastPair.read1.position = input0[lastPair.id1].position
        /\ lastPair.read1.velocity = input0[lastPair.id1].velocity
        /\ lastPair.read2.position = input0[lastPair.id2].position
        /\ lastPair.read2.velocity = input0[lastPair.id2].velocity

\* C2: process_collisions does not modify the snapshot it is given: when
\* the call has returned, every body of the caller's snapshot has the
\* position and velocity it had before the call.
C2_InputSnapshotUnmodified ==
    pc = "returned" =>
        \A id \in DOMAIN game_objects :
            /\ heap[game_objects[id]].position = input0[id].position
            /\ heap[game_objects[id]].velocity = input0[id].velocity

\* a permission is declared between a layer of one object and a layer of
\* the other, in either direction
PermissionEitherWay(layers, obj1_id, obj2_id, matrix) ==
    \E layer1 \in LayersOf(layers, obj1_id), layer2 \in LayersOf(layers, obj2_id) :
        \/ <<layer1, layer2>> \in Permissions(matrix)
        \/ <<layer2, layer1>> \in Permissions(matrix)

\* C3: a pair is skipped if and only if the collision matrix declares no
\* permission between a layer of one body and a layer of the other, in
\* either direction, so that the order of the two bodies in the snapshot
\* does not matter.
C3_SkippedIffNoPermission ==
    lastPair.valid =>
        (lastPair.skipped <=>
            ~PermissionEitherWay(collision_layers, lastPair.id1, lastPair.id2,
                                 collision_matrix))

\* C4: for a box first and a sphere second the normal of the sphere-box
\* test is negated before use, for a sphere first and a box second it is
\* used as returned, and in both orders the normal used points from the
\* second body of the pair toward the first.
C4_MixedPairNormalTowardFirst ==
    (PairChecked /\ lastPair.detected
        /\ lastPair.read1.shape # lastPair.read2.shape) =>
        /\ (lastPair.read1.shape = "box" => lastPair.used = NegNormal(lastPair.raw))
        /\ (lastPair.read1.shape = "sphere" => lastPair.used = lastPair.raw)
        /\ (lastPair.read1.position # lastPair.read2.position =>
               Dot(lastPair.used.num,
                   VSub(lastPair.read1.position, lastPair.read2.position)) > 0)

----------------------------------------------------------------------------
(* Properties of check_sphere_sphere (specification SpecSphere) *)

SphereCalled == ret.op = "check_sphere_sphere"

\* squared distance of the two centres of the call
CentreDistSquared ==
    Dot(VSub(call.pos1, call.pos2), VSub(call.pos1, call.pos2))

RadiusSum == call.radius1 + call.radius2

\* C5: check_sphere_sphere reports a hit if and only if the squared centre
\* distance is strictly below (rA + rB)^2; spheres that exactly touch are
\* no hit, and a no-hit result carries no normal.
C5_SphereHitIffStrictlyCloser ==
    SphereCalled =>
        /\ ret.result.hit <=> CentreDistSquared < RadiusSum * RadiusSum
        /\ CentreDistSquared = RadiusSum * RadiusSum => ~ret.result.hit
        /\ ~ret.result.hit => ret.result.normal.isNone

\* the call was made on two spheres that exactly touch, and reported no hit
C5_TouchingSpheresCalled ==
    /\ SphereCalled
    /\ CentreDistSquared = RadiusSum * RadiusSum
    /\ ~ret.result.hit
    /\ ret.result.normal.isNone

\* C6: on a hit with non-coincident centres the normal is the unit vector
\* from B to A (direction posA - posB); with coincident centres (squared
\* distance at most 1e-4) it is the fallback (0, 1, 0), never zero.
C6_SphereNormalFromBToA ==
    (SphereCalled /\ ret.result.hit) =>
        IF CentreDistSquared > DistSqEps
        THEN /\ IsUnit(ret.result.normal)
             /\ ret.result.normal.num = VSub(call.pos1, call.pos2)
        ELSE ret.result.normal = Normal(Vec(0, 1, 0), 1)

----------------------------------------------------------------------------
(* Properties of check_box_box (specification SpecBox) *)

BoxCalled == ret.op = "check_box_box"

\* the closed intervals [c1 - h1, c1 + h1] and [c2 - h2, c2 + h2] meet
IntervalsMeet(c1, h1, c2, h2) == Max2(c1 - h1, c2 - h2) <= Min2(c1 + h1, c2 + h2)

CallAxisDepth(k) ==
    AxisDepth(call.pos1, call.half_size1, call.pos2, call.half_size2, k)

\* C7: check_box_box reports a hit exactly for the boxes whose intervals
\* overlap on all three axes (no hit when some axis separates them), and on
\* a hit the normal lies along an axis whose penetration depth is the
\* least of the three.
C7_BoxHitAndMinimumAxis ==
    BoxCalled =>
        /\ ret.result.hit <=>
              \A k \in Axes : IntervalsMeet(call.pos1[k], call.half_size1[k],
                                            call.pos2[k], call.half_size2[k])
        /\ ret.result.hit =>
              \E k \in Axes, sign \in {-1, 1} :
                  /\ ret.result.normal = Normal(AxisVec(k, sign), 1)
                  /\ \A m \in Axes : CallAxisDepth(k) <= CallAxisDepth(m)
        /\ ~ret.result.hit => ret.result.normal.isNone

\* the call was made on overlapping boxes whose z axis alone has the least
\* depth, and returned a normal along z
C7_LeastDepthOnZCalled ==
    /\ BoxCalled
    /\ ret.result.hit
    /\ CallAxisDepth(3) < CallAxisDepth(1)
    /\ CallAxisDepth(3) < CallAxisDepth(2)
    /\ ret.result.normal.num[3] # 0

\* C8: on a hit the normal of check_box_box(posA, halfA, posB, halfB) is
\* oriented from B to A: its non-zero component has the sign of
\* posA - posB on that axis whenever the centres differ on that axis.
C8_BoxNormalFromBToA ==
    (BoxCalled /\ ret.result.hit) =>
        \A k \in Axes :
            (ret.result.normal.num[k] # 0 /\ call.pos1[k] # call.pos2[k]) =>
                Sign(ret.result.normal.num[k]) = Sign(call.pos1[k] - call.pos2[k])

----------------------------------------------------------------------------
(* Properties of ray_cast (specification SpecRay) *)

RayCalled == ret.op = "ray_cast"

\* ray_cast of the call's ray against the k-th candidate alone
Lone(k) ==
    RayCast(call.ray_origin, call.ray_direction, call.max_distance,
            <<call.objects[k]>>)

\* the candidates the ray hits within range
LoneHits == {k \in 1..Len(call.objects) : Lone(k).hit}

Reversed(s) == [k \in 1..Len(s) |-> s[Len(s) + 1 - k]]

MeetsAt(k, distance) ==
    LET c == RayCandidate(call.ray_origin, call.ray_direction, call.objects[k],
                          call.max_distance + 1)
    IN  c.hit /\ c.distance = distance

\* C10: every hit returned by ray_cast has a distance d with
\* 0 <= d <= max_distance, also for an origin inside the candidate, and
\* its point is origin + direction * d; an intersection at exactly
\* max_distance is still a hit.
C10_HitDistanceWithinRange ==
    RayCalled =>
        /\ ret.result.hit =>
              /\ 0 <= ret.result.distance
              /\ ret.result.distance <= call.max_distance
              /\ ret.result.point =
                    Along(call.ray_origin, call.ray_direction,
                          ret.result.distance)
        /\ (\E k \in 1..Len(call.objects) : MeetsAt(k, call.max_distance)) =>
              ret.result.hit

----------------------------------------------------------------------------
(* Properties of ray_cast against one box (specification SpecRayBox) *)

\* the box of the call
CallBox == call.objects[1]

CallMinBound(k) == CallBox.position[k] - CallBox.half_size[k]

CallMaxBound(k) == CallBox.position[k] + CallBox.half_size[k]

\* the axes along which the ray moves
MovingAxes == {k \in Axes : call.ray_direction.num[k] # 0}

\* the time at which the ray is at coordinate x of axis k
TimeAt(x, k) ==
    Quot((x - call.ray_origin[k]) * call.ray_direction.den,
         call.ray_direction.num[k])

\* the times at which the ray enters and leaves the slab of axis k
EntryTime(k) == Min2(TimeAt(CallMinBound(k), k), TimeAt(CallMaxBound(k), k))

ExitTime(k) == Max2(TimeAt(CallMinBound(k), k), TimeAt(CallMaxBound(k), k))

LargestEntryTime ==
    CHOOSE t \in {EntryTime(k) : k \in MovingAxes} :
        \A k \in MovingAxes : EntryTime(k) <= t

SmallestExitTime ==
    CHOOSE t \in {ExitTime(k) : k \in MovingAxes} :
        \A k \in MovingAxes : t <= ExitTime(k)

OriginOutsideBox ==
    \E k \in Axes :
        call.ray_origin[k] < CallMinBound(k) \/ call.ray_origin[k] > CallMaxBound(k)

OriginInsideBox ==
    \A k \in Axes :
        CallMinBound(k) < call.ray_origin[k] /\ call.ray_origin[k] < CallMaxBound(k)

\* the ray, started outside, enters the box ahead of its origin
RayEntersBox ==
    /\ OriginOutsideBox
    /\ \A k \in Axes \ MovingAxes :
          CallMinBound(k) <= call.ray_origin[k]
            /\ call.ray_origin[k] <= CallMaxBound(k)
    /\ LargestEntryTime <= SmallestExitTime
    /\ LargestEntryTime > 0

\* the outward normal of the face through which the ray enters on axis k
EntryFaceNormal(k) == AxisVec(k, 0 - Sign(call.ray_direction.num[k]))

\* C11: for a ray that starts outside a box and enters it within range,
\* ray_cast returns the largest per-axis entry time as distance and, as
\* normal, the outward unit normal of the entered face, on an axis of
\* largest entry time and opposing the ray; origin (0,0,0), direction
\* (0,0,1), max_distance 10, box centre (0,0,5), half size (1,1,1) gives
\* distance 4 and normal (0,0,-1); for an origin inside the box the
\* distance is the smallest per-axis exit time.
C11_RayBoxEntryAndExit ==
    (RayCalled /\ Len(call.objects) = 1 /\ CallBox.type = "box") =>
        /\ (RayEntersBox /\ LargestEntryTime < call.max_distance) =>
              /\ ret.result.hit
              /\ ret.result.distance = LargestEntryTime
              /\ \E k \in MovingAxes :
                    /\ EntryTime(k) = LargestEntryTime
                    /\ ret.result.normal = Normal(EntryFaceNormal(k), 1)
              /\ Dot(ret.result.normal.num, call.ray_direction.num) < 0
        /\ (call.ray_origin = Vec(0, 0, 0)
               /\ call.ray_direction = Dir(Vec(0, 0, 1), 1)
               /\ call.max_distance = 10
               /\ CallBox = Box(Vec(0, 0, 5), Vec(1, 1, 1))) =>
              /\ ret.result.hit
              /\ ret.result.distance = 4
              /\ ret.result.normal = Normal(Vec(0, 0, -1), 1)
        /\ (OriginInsideBox /\ SmallestExitTime < call.max_distance) =>
              /\ ret.result.hit
              /\ ret.result.distance = SmallestExitTime

\* a diagonal ray entered a box through the face of its second moving
\* axis, the entry time of the first being smaller but positive
C11_DiagonalRayEnteredOnY ==
    /\ RayCalled
    /\ RayEntersBox
    /\ MovingAxes = {1, 2}
    /\ 0 < EntryTime(1)
    /\ EntryTime(1) < EntryTime(2)
    /\ ret.result.hit
    /\ ret.result.distance = EntryTime(2)
    /\ ret.result.normal.num[2] # 0

----------------------------------------------------------------------------
(* Properties of resolve_sphere_collision (specification SpecResolve) *)

ResolveCalled == ret.op = "resolve_sphere_collision"

\* m1 * v1 + m2 * v2
Momentum(mass1, velocity1, mass2, velocity2) ==
    VAdd(VScale(velocity1, mass1), VScale(velocity2, mass2))

\* the relative velocity of the call's spheres along pos1 - pos2 is positive
MovingApart ==
    Dot(VSub(call.velocity1, call.velocity2), VSub(call.pos1, call.pos2)) > 0

\* C12: resolve_sphere_collision conserves total momentum: m1*v1 + m2*v2
\* after the call equals m1*v1 + m2*v2 before it, componentwise, in
\* particular for two spheres of equal mass and restitution 1.0.
C12_MomentumConserved ==
    (ResolveCalled /\ ret.calls = 1) =>
        Momentum(call.mass1, ret.result.velocity1,
                 call.mass2, ret.result.velocity2)
          = Momentum(call.mass1, call.velocity1, call.mass2, call.velocity2)

\* two approaching spheres of equal mass were resolved with restitution 1
\* and both velocities changed
C12_EqualMassElasticResolved ==
    /\ ResolveCalled
    /\ ret.calls = 1
    /\ call.mass1 = call.mass2
    /\ call.restitution = Fraction(1, 1)
    /\ ret.result.velocity1 # call.velocity1
    /\ ret.result.velocity2 # call.velocity2

\* C13: resolve_sphere_collision returns both velocities unchanged when
\* the spheres are moving apart (relative velocity along the normal > 0)
\* or when the centres coincide (distance < 1e-4); called again on its own
\* output for spheres moving apart it returns the velocities unchanged
\* again.
C13_ApartOrCoincidentUnchanged ==
    ResolveCalled =>
        /\ (MovingApart \/ call.pos1 = call.pos2) =>
              /\ ret.first.velocity1 = call.velocity1
              /\ ret.first.velocity2 = call.velocity2
        /\ (MovingApart /\ ret.calls = 2) =>
              /\ ret.result.velocity1 = call.velocity1
              /\ ret.result.velocity2 = call.velocity2

\* the call was made twice on spheres moving apart
C13_MovingApartCalledTwice ==
    /\ ResolveCalled
    /\ ret.calls = 2
    /\ MovingApart
    /\ call.velocity1 # call.velocity2
    /\ ret.result.velocity1 = call.velocity1
    /\ ret.result.velocity2 = call.velocity2

----------------------------------------------------------------------------
(* Properties of Motion.apply_gravity (specification SpecGravity) *)

GravityCalled == ret.op = "apply_gravity"

\* C15: apply_gravity leaves the velocity of a grounded body unchanged for
\* every delta_time, and for an airborne body returns
\* velocity + gravity * delta_time; with gravity (0, -9.81, 0) and zero
\* velocity the vertical velocity after one tick is -9.81 * delta_time and
\* the horizontal components stay zero.
C15_GravityOnlyWhenAirborne ==
    GravityCalled =>
        /\ call.is_grounded => ret.result = call.velocity
        /\ ~call.is_grounded =>
              \A k \in Axes :
                  ret.result[k] * call.delta_time.den
                    = call.velocity[k] * call.delta_time.den
                        + call.motion.gravity[k] * call.delta_time.num
        /\ (~call.is_grounded /\ call.velocity = Zero3
               /\ call.motion.gravity = Vec(0, -981, 0)) =>
              /\ ret.result[2] * call.delta_time.den
                    = -981 * call.delta_time.num
              /\ ret.result[1] = 0
              /\ ret.result[3] = 0

\* the call was made for a grounded body under the default gravity, and
\* returned its velocity
C15_GroundedBodyCalled ==
    /\ GravityCalled
    /\ call.is_grounded
    /\ call.motion.gravity = Vec(0, -981, 0)
    /\ call.velocity # Zero3
    /\ ret.result = call.velocity

----------------------------------------------------------------------------
(* Properties of Motion.process_object_motion (specification SpecMotion) *)

MotionCalled == ret.op = "process_object_motion"

CallGrounded == Get(call.obj, "is_grounded", FALSE)

\* w - air_resistance * w * delta_time
Damped(w) ==
    [k \in Axes |->
        w[k] - (w[k] * call.motion.air_resistance.num * call.delta_time.num)
                 \div (call.motion.air_resistance.den * call.delta_time.den)]

\* ground_friction * 9.81 * delta_time
FrictionLoss ==
    (call.motion.ground_friction.num * 981 * call.delta_time.num)
        \div (call.motion.ground_friction.den * call.delta_time.den)

\* a speed u along one axis, reduced by the friction loss and not below 0
Rubbed(u) ==
    IF Abs(u) > FrictionLoss THEN u - Sign(u) * FrictionLoss ELSE 0

\* C16: process_object_motion applies gravity, air resistance, ground
\* friction and the position update in this order, each on the velocity
\* the step before produced: an airborne body ends with the damped
\* velocity + gravity * delta_time, a grounded body with its damped
\* velocity reduced by friction along its horizontal direction, and the
\* returned position is the input position plus delta_time times the
\* returned velocity.
C16_StepsInOrder ==
    MotionCalled =>
        /\ \A k \in Axes :
              ret.result.position[k] * call.delta_time.den
                = call.obj.position[k] * call.delta_time.den
                    + ret.result.velocity[k] * call.delta_time.num
        /\ ~CallGrounded =>
              ret.result.velocity =
                  Damped(VAdd(call.obj.velocity,
                              VFrac(call.motion.gravity, call.delta_time.num,
                                    call.delta_time.den)))
        /\ CallGrounded =>
              LET u == Damped(call.obj.velocity)
              IN  ret.result.velocity = Vec(Rubbed(u[1]), u[2], Rubbed(u[3]))

\* an airborne body under gravity and air resistance was moved: damping
\* before gravity would have given another velocity
C16_AirborneDampedAfterGravity ==
    /\ MotionCalled
    /\ ~CallGrounded
    /\ call.motion.gravity # Zero3
    /\ call.motion.air_resistance.num # 0
    /\ call.obj.velocity[1] # 0
    /\ ret.result.velocity #
          VAdd(Damped(call.obj.velocity),
               VFrac(call.motion.gravity, call.delta_time.num,
                     call.delta_time.den))
    /\ ret.result.position # call.obj.position

----------------------------------------------------------------------------
(* Properties of the caller's loop (specification SpecGame) *)

\* squared centre distance and radius sum of the pair just processed
PairDistSquared ==
    Dot(VSub(lastPair.read1.position, lastPair.read2.position),
        VSub(lastPair.read1.position, lastPair.read2.position))

PairRadiusSum == lastPair.read1.radius + lastPair.read2.radius

\* sphere 2 still rests: no collision has been resolved so far
NotYetCollided == lastPair.read2.velocity = Zero3

\* after the elastic resolution of a collision of spheres with distinct
\* centres, sphere 1 rests and sphere 2 has the velocity sphere 1 started
\* with
ElasticTransfer ==
    (PairChecked /\ lastPair.detected /\ lastPair.written
        /\ NotYetCollided /\ call.restitution = Fraction(1, 1)
        /\ lastPair.read1.position # lastPair.read2.position) =>
        /\ heap[updated_objects[1]].velocity = Zero3
        /\ heap[updated_objects[2]].velocity = call.velocity1

\* C14 as claimed: no collision is detected at t = 0, a collision is
\* detected at the first tick at which the centre distance is <= the sum
\* of the radii (2), and after its elastic resolution A's velocity is
\* (0,0,0) and B's is A's initial velocity (1,0,0).
C14_CollidesOnceDistanceAtMostTwo ==
    /\ (PairChecked /\ tick = 0) => ~lastPair.detected
    /\ (PairChecked /\ NotYetCollided
           /\ PairDistSquared <= PairRadiusSum * PairRadiusSum) =>
          lastPair.detected
    /\ ElasticTransfer

\* C14, amended: no collision is detected at t = 0 nor at a tick at which
\* the spheres exactly touch (centre distance = 2); a collision is detected
\* at the first tick at which the centre distance is < 2, and after its
\* elastic resolution A's velocity is (0,0,0) and B's is A's initial
\* velocity (1,0,0).
C14_CollidesOnceDistanceBelowTwo ==
    /\ (PairChecked /\ tick = 0) => ~lastPair.detected
    /\ (PairChecked /\ NotYetCollided) =>
          (lastPair.detected <=>
              PairDistSquared < PairRadiusSum * PairRadiusSum)
    /\ ElasticTransfer

\* the scenario of the claim: the spheres touched at tick 1 undetected,
\* the collision was detected and resolved at tick 2, and the velocities
\* were exchanged
C14_ResolvedAtSecondTick ==
    /\ call.velocity1 = Vec(100, 0, 0)
    /\ call.restitution = Fraction(1, 1)
    /\ PairChecked
    /\ lastPair.read1.mass = 1
    /\ lastPair.read1.position = Vec(200, 0, 0)
    /\ lastPair.read2.position = Vec(300, 0, 0)
    /\ tick = 2
    /\ lastPair.detected
    /\ heap[updated_objects[1]].velocity = Zero3
    /\ heap[updated_objects[2]].velocity = Vec(100, 0, 0)


----------------------------------------------------------------------------
(* Properties of apply_movement_input without input (specification         *)
(* SpecDecay)                                                              *)

DecayTicked == ret.op = "apply_movement_input" /\ ret.ticks > 0 /\ ret.exact

SpeedSquared(obj) == Dot(Horizontal(obj), Horizontal(obj))

\* C17: with zero input, from one tick to the next the horizontal speed
\* never increases, a horizontal speed of zero stays zero, and the
\* horizontal velocity never points opposite to its initial direction.
C17_DecaysWithoutReversing ==
    DecayTicked =>
        /\ SpeedSquared(ret.obj) <= SpeedSquared(ret.before)
        /\ SpeedSquared(ret.before) = 0 => SpeedSquared(ret.obj) = 0
        /\ Dot(Horizontal(ret.obj), Horizontal(call.obj)) >= 0


----------------------------------------------------------------------------
(* Properties of process_jump (specification SpecJump)                     *)

JumpCalled == ret.op = "process_jump"

JumpGrounded == Get(call.obj, "is_grounded", FALSE)

\* the body process_jump makes of a grounded body: jump_force / mass more
\* vertical velocity, not grounded, everything else as it was
Jumped(obj, jump_force) ==
    [k \in DOMAIN obj \cup {"is_grounded"} |->
        IF k = "velocity"
        THEN Vec(obj.velocity[1],
                 obj.velocity[2] + jump_force \div Get(obj, "mass", 1),
                 obj.velocity[3])
        ELSE IF k = "is_grounded" THEN FALSE ELSE obj[k]]

\* C18: process_jump changes a body only when is_grounded is true: it then
\* adds jump_force / mass to the vertical velocity only, leaves horizontal
\* velocity and position unchanged and sets is_grounded to false; a body
\* that is not grounded is returned as it is, and so is the body of a
\* second process_jump.
C18_JumpOnlyWhenGrounded ==
    JumpCalled =>
        /\ ret.first = IF JumpGrounded
                       THEN Jumped(call.obj, call.jump_force)
                       ELSE call.obj
        /\ ret.first.position = call.obj.position
        /\ ret.calls = 2 => ret.result = ret.first

\* a grounded body of mass 2 with some horizontal velocity has jumped,
\* and process_jump was called once more
C18_GroundedBodyJumpedTwice ==
    /\ JumpCalled
    /\ ret.calls = 2
    /\ JumpGrounded
    /\ Get(call.obj, "mass", 1) = 2
    /\ call.obj.velocity[1] # 0
    /\ ret.result.velocity[2] = call.obj.velocity[2] + call.jump_force \div 2
    /\ ~ret.result.is_grounded


----------------------------------------------------------------------------
(* Properties of MotionPhysicsSystem.update (specification SpecUpdate)     *)

UpdateCalled == ret.op = "update"

\* the body has the has_physics flag: the key is there and it is True
HasPhysicsFlag(obj) == "has_physics" \in DOMAIN obj /\ obj.has_physics

\* C19: update returns a snapshot with exactly the body ids of its input,
\* and every body without the has_physics flag (flag false, or no such
\* key) is returned with every field unchanged.
C19_BodiesWithoutPhysicsUnchanged ==
    UpdateCalled =>
        /\ DOMAIN ret.result = DOMAIN call.objects
        /\ \A obj_id \in DOMAIN call.objects :
              ~HasPhysicsFlag(call.objects[obj_id]) =>
                  ret.result[obj_id] = call.objects[obj_id]


----------------------------------------------------------------------------
(* Properties of resolve_penetration (specification SpecPenetration)       *)

PenetrationCalled == ret.op = "resolve_penetration"

GapSquared(pos1, pos2) == Dot(VSub(pos1, pos2), VSub(pos1, pos2))

CallRadiusSum == call.radius1 + call.radius2

SpheresOverlap ==
    GapSquared(call.pos1, call.pos2) < CallRadiusSum * CallRadiusSum

\* C20: every pair of overlapping spheres, coincident centres included, is
\* moved apart by resolve_penetration so that afterwards the centre
\* distance is r1 + r2 and check_sphere_sphere reports no hit;
\* non-overlapping spheres are returned unchanged.
C20_OverlapResolvedToTouching ==
    PenetrationCalled =>
        IF SpheresOverlap
        THEN /\ GapSquared(ret.result.pos1, ret.result.pos2)
                   = CallRadiusSum * CallRadiusSum
             /\ ~CheckSphereSphere(ret.result.pos1, call.radius1,
                                   ret.result.pos2, call.radius2).hit
        ELSE /\ ret.result.pos1 = call.pos1
             /\ ret.result.pos2 = call.pos2


----------------------------------------------------------------------------
(* Properties of process_collisions on invalid input (specification        *)
(* SpecInvalid)                                                            *)

\* the body has a mass <= 0, or lacks the parameter of its shape
InvalidBody(obj) ==
    \/ obj.mass <= 0
    \/ obj.shape = "sphere" /\ "radius" \notin DOMAIN obj
    \/ obj.shape = "box" /\ "half_size" \notin DOMAIN obj

\* the matrix names a layer that no body was ever added to
NamesUnknownLayer(matrix) ==
    \E name \in DOMAIN matrix :
        \/ name \notin DOMAIN collision_layers
        \/ \E other \in matrix[name] : other \notin DOMAIN collision_layers

InvalidInput ==
    \/ \E id \in DOMAIN input0 : InvalidBody(input0[id])
    \/ NamesUnknownLayer(collision_matrix)

\* C21: whenever the snapshot holds a body with mass <= 0 or without its
\* shape parameter, or the collision matrix names an unknown layer,
\* process_collisions ends in an error and never returns a snapshot.
C21_InvalidInputNeverReturns == pc = "returned" => ~InvalidInput


----------------------------------------------------------------------------
(* Properties of GravitySystem (specification SpecGravitySystem)           *)

\* a body: a game object with a velocity and a mass
IsBody(object) == "velocity" \in DOMAIN object /\ "mass" \in DOMAIN object

\* gravity_vector * delta_time of the last update call
GravityStep ==
    VFrac(gravity_system.gravity_vector.num, call.delta_time.num,
          gravity_system.gravity_vector.den * call.delta_time.den)

GravityUpdateCalled ==
    call.op = "update" /\ exact /\ gravity_system.gravity_vector.den # 0

\* C22: after any sequence of register_object and unregister_object calls
\* the list of affected objects holds each registered object once, and
\* update adds gravity_vector * dt exactly once to the velocity of each
\* registered body and nothing else: every other object, and every other
\* attribute, is unchanged.
C22_RegisteredBodiesFallOnce ==
    /\ Elements(gravity_system.affected_objects) = ret.wanted
    /\ Len(gravity_system.affected_objects) = Cardinality(ret.wanted)
    /\ GravityUpdateCalled =>
          \A game_object \in DOMAIN heap :
             heap[game_object] =
                IF game_object \in ret.wanted /\ IsBody(ret.before[game_object])
                THEN [ret.before[game_object] EXCEPT
                         !.velocity = VAdd(@, GravityStep)]
                ELSE ret.before[game_object]

\* body 2 was registered twice, body 1 never, before an update under the
\* default gravity
C22_RegisteredTwiceThenUpdated ==
    /\ GravityUpdateCalled
    /\ ret.repeats = 1
    /\ ret.wanted = {2}
    /\ call.delta_time = Fraction(2, 1)
    /\ heap[2].velocity = Vec(100, 200 - 2 * GravityMagnitude, 0)
    /\ heap[1].velocity = Zero3


\* the rational vector is a unit vector
UnitLength(direction) ==
    direction.den # 0
       /\ Dot(direction.num, direction.num) = direction.den * direction.den

\* the rational vector is the zero vector
IsZero(vector) == vector.den # 0 /\ vector.num = Zero3

\* C29: after any sequence of set_gravity_strength, set_gravity_direction,
\* disable_gravity and enable_gravity calls gravity_vector is
\* gravity_direction times gravity_constant and gravity_direction is unit
\* length; after disable_gravity gravity_vector is zero, so that update
\* leaves the velocities unchanged, and disable_gravity and enable_gravity
\* leave gravity_direction as it was.
C29_UnitDirectionTimesConstant ==
    /\ UnitLength(gravity_system.gravity_direction)
    /\ gravity_system.gravity_vector =
          Times(gravity_system.gravity_direction,
                gravity_system.gravity_constant)
    /\ call.op = "disable_gravity" => IsZero(gravity_system.gravity_vector)
    /\ (call.op = "update" /\ gravity_system.gravity_constant = 0) =>
          heap = ret.before
    /\ call.op \in {"disable_gravity", "enable_gravity"} =>
          gravity_system.gravity_direction = ret.system.gravity_direction


----------------------------------------------------------------------------
(* Properties of the simplified impulse of box-box and sphere-box pairs    *)
(* (specification Spec)                                                    *)

\* the last pair had a box in it, passed the layer filter and was found
\* overlapping, its centres being distinct
BoxPairHit ==
    /\ PairChecked
    /\ lastPair.detected
    /\ ~(lastPair.read1.shape = "sphere" /\ lastPair.read2.shape = "sphere")
    /\ lastPair.read1.position # lastPair.read2.position

\* the bodies of the last pair as they are after its resolution
After1 == heap[updated_objects[lastPair.id1]]

After2 == heap[updated_objects[lastPair.id2]]

\* relative velocity along the line between the centres, times the
\* distance: negative when the bodies approach each other
Closing(v1, v2) ==
    Dot(VSub(v1, v2), VSub(lastPair.read1.position, lastPair.read2.position))

PairMomentum(m1, v1, m2, v2) == VAdd(VScale(v1, m1), VScale(v2, m2))

\* C23: for an overlapping box-box or sphere-box pair that passes the layer
\* filter, velocities change only when the two bodies approach each other;
\* afterwards the pair is no longer approaching along the line between
\* the centres, the total momentum is unchanged and the centres are not
\* closer together; a pair moving apart is left unchanged.
C23_BoxPairsResolvedOnlyWhenApproaching ==
    (BoxPairHit /\ exact) =>
        /\ (After1.velocity # lastPair.read1.velocity
               \/ After2.velocity # lastPair.read2.velocity) =>
              Closing(lastPair.read1.velocity, lastPair.read2.velocity) < 0
        /\ Closing(After1.velocity, After2.velocity) >= 0
        /\ PairMomentum(After1.mass, After1.velocity,
                        After2.mass, After2.velocity)
              = PairMomentum(lastPair.read1.mass, lastPair.read1.velocity,
                             lastPair.read2.mass, lastPair.read2.velocity)
        /\ Dot(VSub(After1.position, After2.position),
               VSub(After1.position, After2.position)) >= PairDistSquared
        /\ Closing(lastPair.read1.velocity, lastPair.read2.velocity) > 0 =>
              /\ After1 = lastPair.read1
              /\ After2 = lastPair.read2


----------------------------------------------------------------------------
(* apply_air_resistance and apply_ground_friction on their own.  The       *)
(* velocity returned is kept as a vector of numerators over one            *)
(* denominator, so that a step ending between zero and the 0.001           *)
(* threshold is told apart from one ending at zero.                        *)

RECURSIVE GCD(_, _)
\* greatest common divisor of a >= 0 and b >= 0, not both zero
GCD(a, b) == IF b = 0 THEN a ELSE GCD(b, a % b)

\* the vector v * num / den, for den > 0, in lowest terms
Scaled(v, num, den) ==
    LET g == GCD(Abs(num), den)
    IN  [num |-> VScale(v, num \div g), den |-> den \div g]

\* "np.zeros_like(velocity)"
ZerosLike == [num |-> Zero3, den |-> 1]

\* "norm(w) < 0.001" for w = v * num / den, speed being norm(v): in units
\* of 1/100, speed * |num| / den < 1/10
NormBelow(speed, num, den) == 10 * speed * Abs(num) < den

\* apply_air_resistance (lines 113-129): new_velocity is
\*   velocity * (1 - air_resistance * delta_time)
ApplyAirResistanceScaled(motion, velocity, delta_time) ==
    LET speed == ISqrt(Dot(velocity, velocity))
        num == motion.air_resistance.num * delta_time.num
        den == motion.air_resistance.den * delta_time.den
        new_velocity == Scaled(velocity, den - num, den)
    IN  IF SpeedAbove(velocity)
        THEN IF NormBelow(speed, den - num, den)
                   \/ Dot(new_velocity.num, velocity) < 0
             THEN ZerosLike
             ELSE new_velocity
        ELSE ZerosLike

\* apply_ground_friction, mutated: the step is not clamped at zero
ApplyGroundFrictionUnclamped(motion, velocity, is_grounded, delta_time) ==
    LET horizontal_velocity == Vec(velocity[1], 0, velocity[3])
        speed == ISqrt(Dot(horizontal_velocity, horizontal_velocity))
        num == motion.ground_friction.num * GravityMagnitude * delta_time.num
        den == motion.ground_friction.den * delta_time.den * speed
        new_horizontal == Scaled(horizontal_velocity, den - num, den)
    IN  IF ~is_grounded \/ ~SpeedAbove(horizontal_velocity)
        THEN [num |-> velocity, den |-> 1]
        ELSE [num |-> Vec(new_horizontal.num[1],
                          velocity[2] * new_horizontal.den,
                          new_horizontal.num[3]),
              den |-> new_horizontal.den]

\* apply_ground_friction (lines 144-171): new_horizontal is
\*   horizontal_velocity * (1 - ground_friction * 9.81 * delta_time / speed)
ApplyGroundFrictionScaled(motion, velocity, is_grounded, delta_time) ==
    LET horizontal_velocity == Vec(velocity[1], 0, velocity[3])
        speed == ISqrt(Dot(horizontal_velocity, horizontal_velocity))
        num == motion.ground_friction.num * GravityMagnitude * delta_time.num
        den == motion.ground_friction.den * delta_time.den * speed
        moved == Scaled(horizontal_velocity, den - num, den)
        new_horizontal ==
            IF NormBelow(speed, den - num, den)
                  \/ Dot(moved.num, horizontal_velocity) < 0
            THEN ZerosLike ELSE moved
    IN  IF ~is_grounded THEN [num |-> velocity, den |-> 1]
        ELSE IF SpeedAbove(horizontal_velocity)
             THEN [num |-> Vec(new_horizontal.num[1],
                               velocity[2] * new_horizontal.den,
                               new_horizontal.num[3]),
                   den |-> new_horizontal.den]
             ELSE [num |-> Vec(0, velocity[2], 0), den |-> 1]

\* velocities of integer length: zero, 0.01, 0.02, 0.03 and 0.05 m/s
DragVelocities ==
    {Zero3, Vec(1, 0, 0), Vec(0, -2, 0), Vec(3, 0, -4), Vec(1, 2, 2),
     Vec(-2, 1, 2), Vec(0, 4, 3)}

\* velocities whose horizontal part has integer length
FrictionVelocities ==
    {Vec(h[1], vy, h[3]) :
        h \in {Zero3, Vec(1, 0, 0), Vec(0, 0, -2), Vec(3, 0, -4),
               Vec(-4, 0, 3), Vec(0, 0, 5)},
        vy \in {0, -7}}

\* air_resistance: 0, the default 0.01, 0.95 and 3
DragAirResistances ==
    {Fraction(0, 1), Fraction(1, 100), Fraction(19, 20), Fraction(3, 1)}

\* ground_friction: 0, 1 / 9.81, the default 0.1 and 1
DragGroundFrictions ==
    {Fraction(0, 1), Fraction(100, GravityMagnitude), Fraction(1, 10),
     Fraction(1, 1)}

\* delta_time: 0, 0.1, 1 and 2 seconds
DragDeltaTimes ==
    {Fraction(0, 1), Fraction(1, 10), Fraction(1, 1), Fraction(2, 1)}

\* delta_time: 0, 0.01, 0.1 and 1 seconds
FrictionDeltaTimes ==
    {Fraction(0, 1), Fraction(1, 100), Fraction(1, 10), Fraction(1, 1)}

InitDrag ==
    /\ ManagerIdle
    /\ ret = NoCall
    /\ \/ \E velocity \in DragVelocities, air_resistance \in DragAirResistances,
             delta_time \in DragDeltaTimes :
             call = [op |-> "apply_air_resistance",
                     motion |-> MotionParams(Vec(0, 0 - GravityMagnitude, 0),
                                             air_resistance, Fraction(1, 10)),
                     velocity |-> velocity, delta_time |-> delta_time]
       \/ \E velocity \in FrictionVelocities,
             ground_friction \in DragGroundFrictions, is_grounded \in BOOLEAN,
             delta_time \in FrictionDeltaTimes :
             call = [op |-> "apply_ground_friction",
                     motion |-> MotionParams(Vec(0, 0 - GravityMagnitude, 0),
                                             Fraction(1, 100), ground_friction),
                     velocity |-> velocity, is_grounded |-> is_grounded,
                     delta_time |-> delta_time]

CallApplyAirResistance ==
    /\ call.op = "apply_air_resistance"
    /\ ret = NoCall
    /\ ret' = [op |-> "apply_air_resistance",
               velocity |-> ApplyAirResistanceScaled(call.motion, call.velocity,
                                                     call.delta_time)]
    /\ UNCHANGED << managerVars, call >>

CallApplyGroundFriction ==
    /\ call.op = "apply_ground_friction"
    /\ ret = NoCall
    /\ ret' = [op |-> "apply_ground_friction",
               velocity |-> ApplyGroundFrictionScaled(call.motion,
                                                      call.velocity,
                                                      call.is_grounded,
                                                      call.delta_time)]
    /\ UNCHANGED << managerVars, call >>

NextDrag == CallApplyAirResistance \/ CallApplyGroundFriction

SpecDrag == InitDrag /\ [][NextDrag]_vars

(* Properties of apply_air_resistance and apply_ground_friction            *)
(* (specification SpecDrag)                                                *)

\* the part of the argument and of the result the call works on: the whole
\* velocity for air resistance, its horizontal part for ground friction
DragInput ==
    IF call.op = "apply_air_resistance" THEN call.velocity
    ELSE Vec(call.velocity[1], 0, call.velocity[3])

DragOutput ==
    IF call.op = "apply_air_resistance" THEN ret.velocity.num
    ELSE Vec(ret.velocity.num[1], 0, ret.velocity.num[3])

DragCalled ==
    \/ ret.op = "apply_air_resistance"
    \/ ret.op = "apply_ground_friction" /\ call.is_grounded

\* the fraction of the speed one step takes away, as num / den
DragLoss ==
    IF call.op = "apply_air_resistance"
    THEN Fraction(call.motion.air_resistance.num * call.delta_time.num,
                  call.motion.air_resistance.den * call.delta_time.den)
    ELSE Fraction(call.motion.ground_friction.num * GravityMagnitude
                     * call.delta_time.num,
                  call.motion.ground_friction.den * call.delta_time.den
                     * ISqrt(Dot(DragInput, DragInput)))

\* the step would carry the velocity past zero
Overshoots == DragLoss.num > DragLoss.den

\* the step would leave a speed below 0.001
EndsBelowThreshold ==
    10 * ISqrt(Dot(DragInput, DragInput)) * Abs(DragLoss.den - DragLoss.num)
        < DragLoss.den

\* C24: for air_resistance >= 0 and delta_time >= 0, apply_air_resistance
\* never returns a velocity pointing opposite to its input or one of greater
\* speed, and apply_ground_friction likewise for the horizontal part of a
\* grounded body; a step that would overshoot zero or leave a speed below
\* 0.001 returns exactly zero.
C24_DragNeverReversesNorSpeedsUp ==
    DragCalled =>
        /\ Dot(DragOutput, DragInput) >= 0
        /\ Dot(DragOutput, DragOutput)
              <= Dot(DragInput, DragInput) * ret.velocity.den * ret.velocity.den
        /\ (DragInput # Zero3 /\ (Overshoots \/ EndsBelowThreshold)) =>
              DragOutput = Zero3

\* ground friction 0.1 stops a grounded body moving at 0.01 m/s within one
\* tick of 0.01 s, which would have left it 0.00019 m/s
C24_SlowBodyStopped ==
    /\ ret.op = "apply_ground_friction"
    /\ call.is_grounded
    /\ call.velocity = Vec(1, -7, 0)
    /\ call.motion.ground_friction = Fraction(1, 10)
    /\ call.delta_time = Fraction(1, 100)
    /\ ~Overshoots
    /\ EndsBelowThreshold
    /\ ret.velocity = [num |-> Vec(0, -7, 0), den |-> 1]


----------------------------------------------------------------------------
(* apply_movement_input called tick after tick with the same non-zero      *)
(* input, the same flags and the same facing: each call is given the body  *)
(* the previous call returned.                                             *)

\* the controller as constructed, and with air control switched off by
\* set_movement_params(air_control=0)
SteerOmnis ==
    {DefaultOmni, [DefaultOmni EXCEPT !.air_control = Fraction(0, 1)]}

\* input_direction: forward, backward, right, and forward-right
SteerInputs == {Vec(0, 0, 1), Vec(0, 0, -1), Vec(1, 0, 0), Vec(3, 0, 4)}

\* the velocity the body starts with
SteerVelocities ==
    {Zero3, Vec(0, -50, 100), Vec(100, 0, 0), Vec(0, 0, -100)}

\* delta_time: 0.2 and 1 seconds
SteerDeltaTimes == {Fraction(1, 5), Fraction(1, 1)}

\* the optional keys forward_vector and mass of the body
SteerBodies ==
    UNION {LET base == MotionBody(Vec(100, 0, 0), velocity, grounded)
           IN  {base, Put(base, "forward_vector", Vec(1, 0, 0)),
                Put(base, "mass", 2)} :
           velocity \in SteerVelocities, grounded \in GroundedKeys}

InitSteer ==
    /\ ManagerIdle
    /\ \E omni \in SteerOmnis, obj \in SteerBodies,
          input_direction \in SteerInputs, delta_time \in SteerDeltaTimes,
          is_sprinting \in BOOLEAN, is_crouching \in BOOLEAN :
          /\ call = [op |-> "apply_movement_input", omni |-> omni,
                     obj |-> obj, input_direction |-> input_direction,
                     delta_time |-> delta_time,
                     is_sprinting |-> is_sprinting,
                     is_crouching |-> is_crouching]
          /\ ret = [op |-> "apply_movement_input", ticks |-> 0,
                    before |-> obj, obj |-> obj, exact |-> TRUE,
                    current_max_speed |-> Fraction(0, 1),
                    desired_velocity |-> Zero3]

\* what one more tick returns: the caller passes the body it got back
HeldTick ==
    LET computed == MovementVelocity(call.omni, ret.obj, call.input_direction,
                                     call.delta_time, call.is_sprinting,
                                     call.is_crouching)
    IN  [op |-> "apply_movement_input", ticks |-> ret.ticks + 1,
         before |-> ret.obj,
         obj |-> ApplyMovementInput(call.omni, ret.obj, call.input_direction,
                                    call.delta_time, call.is_sprinting,
                                    call.is_crouching),
         exact |-> computed.exact,
         current_max_speed |-> computed.current_max_speed,
         desired_velocity |-> computed.desired_velocity]

CallApplyMovementInputHeld ==
    /\ call.op = "apply_movement_input"
    /\ ret.ticks < MaxSteerTicks
    /\ ret.exact
    /\ ret' = HeldTick
    /\ UNCHANGED << managerVars, call >>

SpecSteer == InitSteer /\ [][CallApplyMovementInputHeld]_vars

(* Properties of apply_movement_input with input (specification SpecSteer) *)

Steered == ret.ticks > 0 /\ ret.exact

\* the body is airborne: it has an is_grounded field and it is False
SteerAirborne == "is_grounded" \in DOMAIN call.obj /\ ~call.obj.is_grounded

\* acceleration * delta_time, times air_control for an airborne body
SteerStep ==
    IF SteerAirborne
    THEN Fraction(call.omni.acceleration * call.omni.air_control.num
                     * call.delta_time.num,
                  call.omni.air_control.den * call.delta_time.den)
    ELSE Fraction(call.omni.acceleration * call.delta_time.num,
                  call.delta_time.den)

\* C25: with non-zero input one tick changes the horizontal velocity by at
\* most acceleration * dt when grounded and acceleration * air_control * dt
\* when airborne, and leaves the vertical velocity, the position and the
\* is_grounded flag unchanged.
C25_InputTickBounded ==
    Steered =>
        LET change == VSub(Horizontal(ret.obj), Horizontal(ret.before))
        IN  /\ Dot(change, change) * SteerStep.den * SteerStep.den
                  <= SteerStep.num * SteerStep.num
            /\ ret.obj.velocity[2] = ret.before.velocity[2]
            /\ ret.obj.position = ret.before.position
            /\ DOMAIN ret.obj = DOMAIN ret.before
            /\ "is_grounded" \in DOMAIN ret.obj =>
                  ret.obj.is_grounded = ret.before.is_grounded

\* an airborne body running forward gained exactly
\* acceleration * air_control * dt = 1.2 m/s in a tick of 0.2 s
C25_AirborneTickAtTheBound ==
    /\ Steered
    /\ SteerAirborne
    /\ call.omni = DefaultOmni
    /\ call.delta_time = Fraction(1, 5)
    /\ call.input_direction = Vec(0, 0, 1)
    /\ ret.before.velocity = Vec(0, -50, 100)
    /\ ret.obj.velocity = Vec(0, -50, 220)


\* the speed limit with the direction multiplier alone: max_speed times
\* backward_speed_multiplier, strafe_speed_multiplier or 1
DirectionSpeedLimit ==
    LET forward_vec == Get(call.obj, "forward_vector", Vec(0, 0, 1))
        move_direction ==
            CalculateMoveDirection(forward_vec, RightVec(forward_vec),
                                   call.input_direction)
        base == DirectionMultiplier(call.omni, move_direction, forward_vec,
                                    FALSE, FALSE)
    IN  Fraction(call.omni.max_speed * base.num, base.den)

\* the flag's multiplier when the flag is set, 1 otherwise
WhenSet(flag, multiplier) == IF flag THEN multiplier ELSE Fraction(1, 1)

\* C26: the speed limit used for the desired velocity is max_speed times the
\* direction multiplier, times the sprint multiplier when is_sprinting is
\* set and times the crouch multiplier when is_crouching is set, for every
\* combination of the two flags.
C26_SprintAndCrouchStack ==
    Steered =>
        LET sprint == WhenSet(call.is_sprinting, call.omni.sprint_multiplier)
            crouch == WhenSet(call.is_crouching, call.omni.crouch_multiplier)
        IN  ret.current_max_speed.num * DirectionSpeedLimit.den
               * sprint.den * crouch.den
              = DirectionSpeedLimit.num * sprint.num * crouch.num
                   * ret.current_max_speed.den


\* the horizontal velocity is the desired velocity of the last tick
SteerReached == Steered /\ Horizontal(ret.obj) = ret.desired_velocity

\* the last tick left the velocity on the near side of the desired velocity
\* and no farther from it
SteerNoOvershoot ==
    LET gap_before == VSub(ret.desired_velocity, Horizontal(ret.before))
        gap_after == VSub(ret.desired_velocity, Horizontal(ret.obj))
    IN  /\ Dot(gap_after, gap_before) >= 0
        /\ Dot(gap_after, gap_after) <= Dot(gap_before, gap_before)

\* the body can be accelerated: acceleration, times air_control for an
\* airborne body, is positive
SteerPowered == SteerStep.num > 0

\* the velocity was the desired velocity before the last tick and is it
\* still
SteerStayed ==
    Horizontal(ret.before) = ret.desired_velocity
        => Horizontal(ret.obj) = ret.desired_velocity

\* C27, as stated: with input, facing and grounded state held, the
\* horizontal velocity reaches exactly the desired velocity within finitely
\* many ticks (MaxSteerTicks suffice for the inputs drawn), never overshoots
\* it on the way, and then stays equal to it.
C27_ReachesDesiredVelocity ==
    Steered =>
        /\ SteerNoOvershoot
        /\ SteerStayed
        /\ ret.ticks = MaxSteerTicks => SteerReached

\* C27, amended: the same for a body that can be accelerated, that is
\* whenever acceleration * (air_control if airborne, else 1) is positive.
C27_PoweredBodyReachesDesiredVelocity ==
    Steered =>
        /\ SteerNoOvershoot
        /\ SteerStayed
        /\ (SteerPowered /\ ret.ticks = MaxSteerTicks) => SteerReached

\* an airborne body reached the desired velocity at its second tick or later
C27_AirborneReachedAfterSeveralTicks ==
    /\ SteerReached
    /\ SteerPowered
    /\ SteerAirborne
    /\ Horizontal(ret.before) # ret.desired_velocity
    /\ ret.before.velocity # call.obj.velocity


----------------------------------------------------------------------------
(* add_to_layer and remove_from_layer called in any order on a fresh       *)
(* CollisionManager.  The history kept in ret: the layers as they were     *)
(* before the last call, and for every body id and layer name the kind of  *)
(* the most recent call that named them.                                   *)

InitLayers ==
    /\ ManagerIdle
    /\ call = [op |-> "__init__", calls |-> 0]
    /\ ret = [before |-> <<>>,
              last |-> [pair \in Ids \X LayerNames |-> "none"]]

CallAddToLayer(object_id, layer_name) ==
    /\ call.calls < MaxLayerCalls
    /\ collision_layers' =
          AddedToLayer(collision_layers, object_id, layer_name)
    /\ call' = [op |-> "add_to_layer", object_id |-> object_id,
                layer_name |-> layer_name, calls |-> call.calls + 1]
    /\ ret' = [before |-> collision_layers,
               last |-> [ret.last EXCEPT ![<<object_id, layer_name>>] = "add"]]
    /\ UNCHANGED << heap, game_objects, updated_objects, collision_matrix,
                    restitution, pc, i, j, input0, lastPair, exact, layerOps,
                    tick, gravity_system >>

CallRemoveFromLayer(object_id, layer_name) ==
    /\ call.calls < MaxLayerCalls
    /\ collision_layers' =
          RemovedFromLayer(collision_layers, object_id, layer_name)
    /\ call' = [op |-> "remove_from_layer", object_id |-> object_id,
                layer_name |-> layer_name, calls |-> call.calls + 1]
    /\ ret' = [before |-> collision_layers,
               last |-> [ret.last EXCEPT
                            ![<<object_id, layer_name>>] = "remove"]]
    /\ UNCHANGED << heap, game_objects, updated_objects, collision_matrix,
                    restitution, pc, i, j, input0, lastPair, exact, layerOps,
                    tick, gravity_system >>

NextLayers ==
    \/ \E object_id \in Ids, layer_name \in LayerNames :
          CallAddToLayer(object_id, layer_name)
    \/ \E object_id \in Ids, layer_name \in LayerNames :
          CallRemoveFromLayer(object_id, layer_name)

SpecLayers == InitLayers /\ [][NextLayers]_vars

(* Properties of the layer calls (specification SpecLayers)                *)

\* "object_id in self.collision_layers[layer_name]", False for a layer
\* that does not exist
Member(layers, object_id, layer_name) ==
    layer_name \in DOMAIN layers /\ object_id \in layers[layer_name]

LayerCalled == call.op \in {"add_to_layer", "remove_from_layer"}

\* the last call changed no membership
MembershipKept ==
    \A object_id \in Ids, layer_name \in LayerNames :
        Member(collision_layers, object_id, layer_name)
            <=> Member(ret.before, object_id, layer_name)

\* C28: a body id is a member of layer L exactly when the most recent call
\* naming that id and L was an add; a call never changes the membership of
\* another layer or another id; a body can be in several layers; repeating
\* an add, removing a non-member and removing from an unknown layer change
\* no membership and raise no error.
C28_MembershipFollowsLastCall ==
    /\ pc = "idle"
    /\ \A object_id \in Ids, layer_name \in LayerNames :
          Member(collision_layers, object_id, layer_name)
              <=> ret.last[<<object_id, layer_name>>] = "add"
    /\ LayerCalled =>
          /\ \A object_id \in Ids, layer_name \in LayerNames :
                <<object_id, layer_name>> # <<call.object_id, call.layer_name>>
                   => (Member(collision_layers, object_id, layer_name)
                          <=> Member(ret.before, object_id, layer_name))
          /\ (call.op = "add_to_layer"
                 /\ Member(ret.before, call.object_id, call.layer_name))
                => MembershipKept
          /\ (call.op = "remove_from_layer"
                 /\ ~Member(ret.before, call.object_id, call.layer_name))
                => MembershipKept

\* body 1 was added to both layers, taken out of "player" and added again,
\* and is now in both
C28_ReAddedBodyInTwoLayers ==
    /\ call = [op |-> "add_to_layer", object_id |-> 1,
               layer_name |-> "player", calls |-> 4]
    /\ ~Member(ret.before, 1, "player")
    /\ "player" \in DOMAIN ret.before
    /\ Member(collision_layers, 1, "player")
    /\ Member(collision_layers, 1, "enemy")


----------------------------------------------------------------------------
(* Properties of MotionPhysicsSystem.update on controlled bodies           *)
(* (specification SpecUpdate)                                              *)

\* the grounded state process_object_motion works with (lines 205, 218)
IntegratorGrounded(obj) == Get(obj, "is_grounded", FALSE)

\* update hands the body to the controller (lines 533, 541)
Controlled(obj) ==
    /\ Get(obj, "has_physics", TRUE)
    /\ Get(obj, "has_controller", FALSE)
    /\ "input_direction" \in DOMAIN obj

\* the controller's rate of change for the body's input: acceleration with
\* input, deceleration without
ControlRate(omni, obj) ==
    IF HasInput(obj.input_direction) THEN omni.acceleration
    ELSE omni.deceleration

\* C30: within one update tick the integrator and the controller agree on
\* whether a body is grounded: a body the integrator treats as airborne,
\* a body without an is_grounded field included, has its controller
\* acceleration and deceleration scaled by air_control, and a body the
\* integrator treats as grounded has them unscaled.
C30_ControllerFollowsIntegratorGrounding ==
    ret.op = "update" =>
        \A obj_id \in DOMAIN call.objects :
            LET obj == call.objects[obj_id]
                integrated ==
                    ProcessObjectMotion(call.motion, obj, call.delta_time)
                change == VSub(Horizontal(ret.result[obj_id]),
                               Horizontal(integrated))
                scaled ==
                    Fraction(ControlRate(call.omni, obj)
                                * call.omni.air_control.num
                                * call.delta_time.num,
                             call.omni.air_control.den * call.delta_time.den)
            IN  Controlled(obj) =>
                    IF IntegratorGrounded(obj)
                    THEN ret.result[obj_id]
                            = ApplyMovementInput(
                                  call.omni, Put(integrated, "is_grounded", TRUE),
                                  obj.input_direction, call.delta_time,
                                  Get(obj, "is_sprinting", FALSE),
                                  Get(obj, "is_crouching", FALSE))
                    ELSE Dot(change, change) * scaled.den * scaled.den
                            <= scaled.num * scaled.num

=============================================================================





